---- MODULE Spec2Model ----
(***************************************************************************)
(* A model of node-bunny-storage (src/index.mjs): the path mapper, the     *)
(* recursive remote lister, the single-file transfers with the axios-retry *)
(* policy, and the bulk operations uploadFolder / downloadFolder that run  *)
(* their transfers behind the async-sema gate.                             *)
(*                                                                         *)
(* Strings are sequences of one-character strings, so that startsWith,     *)
(* endsWith, slice and concatenation are computed as JavaScript computes   *)
(* them.  baseURL is carried as one opaque leading element.                *)
(***************************************************************************)
EXTENDS Integers, Sequences, FiniteSets, TLC

\* ------------------------------------------------------------------------
\* Bounds of the model
\* ------------------------------------------------------------------------
MaxCalls == 2          \* bulk / listing calls made on the one instance
MaxConcurrency == 2    \* the constructor's concurrency is drawn from 1..MaxConcurrency
MaxRetries == 2        \* the constructor's retryCount is drawn from 0..MaxRetries

\* ------------------------------------------------------------------------
\* JavaScript string primitives used by the source
\* ------------------------------------------------------------------------
StartsWith(s, p) == Len(s) >= Len(p) /\ SubSeq(s, 1, Len(p)) = p

EndsWith(s, p) == Len(s) >= Len(p) /\ SubSeq(s, Len(s) - Len(p) + 1, Len(s)) = p

\* s.slice(n) for 0 <= n
SliceFrom(s, n) == SubSeq(s, n + 1, Len(s))

\* s.slice(0, -1)
SliceDropLast(s) == SubSeq(s, 1, Len(s) - 1)

SLASH == <<"/">>

\* ------------------------------------------------------------------------
\* node:path (posix) as used by the source: join, basename, relative, extname
\* ------------------------------------------------------------------------
RECURSIVE SplitSegs(_, _, _)
\* the segments of s between '/' characters (empty segments included)
SplitSegs(s, cur, acc) ==
  IF s = <<>> THEN Append(acc, cur)
  ELSE IF Head(s) = "/" THEN SplitSegs(Tail(s), <<>>, Append(acc, cur))
  ELSE SplitSegs(Tail(s), Append(cur, Head(s)), acc)

Segments(s) == SplitSegs(s, <<>>, <<>>)

RECURSIVE NormSegs(_, _, _)
\* normalizeString: drops empty and '.' segments, resolves '..'
NormSegs(segs, acc, isAbs) ==
  IF segs = <<>> THEN acc
  ELSE LET g == Head(segs) IN
       IF g = <<>> \/ g = <<".">> THEN NormSegs(Tail(segs), acc, isAbs)
       ELSE IF g = <<".", ".">>
         THEN IF acc # <<>> /\ acc[Len(acc)] # <<".", ".">>
                THEN NormSegs(Tail(segs), SubSeq(acc, 1, Len(acc) - 1), isAbs)
              ELSE IF isAbs THEN NormSegs(Tail(segs), acc, isAbs)
              ELSE NormSegs(Tail(segs), Append(acc, g), isAbs)
       ELSE NormSegs(Tail(segs), Append(acc, g), isAbs)

RECURSIVE JoinSegs(_)
JoinSegs(segs) ==
  IF segs = <<>> THEN <<>>
  ELSE IF Len(segs) = 1 THEN Head(segs)
  ELSE Head(segs) \o SLASH \o JoinSegs(Tail(segs))

\* path.normalize
PathNormalize(p) ==
  IF p = <<>> THEN <<".">>
  ELSE LET isAbs == Head(p) = "/"
           trail == p[Len(p)] = "/"
           body  == JoinSegs(NormSegs(Segments(p), <<>>, isAbs))
       IN IF body = <<>>
            THEN (IF isAbs THEN SLASH ELSE IF trail THEN <<".", "/">> ELSE <<".">>)
          ELSE (IF isAbs THEN SLASH ELSE <<>>) \o body \o (IF trail THEN SLASH ELSE <<>>)

\* path.join(a, b): zero-length arguments are skipped, the rest joined and normalized
PathJoin(a, b) ==
  IF a = <<>> /\ b = <<>> THEN <<".">>
  ELSE IF a = <<>> THEN PathNormalize(b)
  ELSE IF b = <<>> THEN PathNormalize(a)
  ELSE PathNormalize(a \o SLASH \o b)

RECURSIVE StripTrailingSlashes(_)
StripTrailingSlashes(p) ==
  IF Len(p) > 1 /\ p[Len(p)] = "/" THEN StripTrailingSlashes(SliceDropLast(p)) ELSE p

\* path.basename(p)
PathBasename(p) ==
  LET q == StripTrailingSlashes(p)
      segs == Segments(q)
  IN IF q = SLASH THEN <<>> ELSE segs[Len(segs)]

RECURSIVE CommonLen(_, _)
CommonLen(a, b) ==
  IF a = <<>> \/ b = <<>> \/ Head(a) # Head(b) THEN 0
  ELSE 1 + CommonLen(Tail(a), Tail(b))

\* path.relative(from, to) for two relative or two absolute paths
PathRelative(from, to) ==
  LET f == NormSegs(Segments(from), <<>>, FALSE)
      t == NormSegs(Segments(to), <<>>, FALSE)
      n == CommonLen(f, t)
      ups == [i \in 1..(Len(f) - n) |-> <<".", ".">>]
  IN JoinSegs(ups \o SubSeq(t, n + 1, Len(t)))

RECURSIVE LastDot(_, _)
\* index of the last '.' of s at or before position i, 0 when there is none
LastDot(s, i) == IF i = 0 THEN 0 ELSE IF s[i] = "." THEN i ELSE LastDot(s, i - 1)

\* path.extname(p): from the last '.' of the basename, '' when there is no '.'
\* or when the only '.' is the basename's first character
PathExtname(p) ==
  LET b == PathBasename(p)
      d == LastDot(b, Len(b))
  IN IF d <= 1 \/ b = <<".", ".">> THEN <<>> ELSE SubSeq(b, d, Len(b))

\* ------------------------------------------------------------------------
\* Path mapper of the instance (src/index.mjs 54-109)
\* ------------------------------------------------------------------------
baseURL == <<"https://storage.bunnycdn.com/">>

storageZoneName == <<"z">>

\* variant: directory '/' is not taken for the root
_getFilePath_RootKept(directory, fileName) ==
  LET dirPart ==
        IF directory # <<>>
          THEN LET d1 == IF StartsWith(directory, SLASH) THEN SliceFrom(directory, 1) ELSE directory
                   d2 == IF EndsWith(d1, SLASH) THEN SliceDropLast(d1) ELSE d1
               IN d2 \o SLASH
        ELSE <<>>
      filePart ==
        IF fileName # <<>>
          THEN LET f1 == IF StartsWith(fileName, SLASH) THEN SliceFrom(fileName, 1) ELSE fileName
                   f2 == IF EndsWith(f1, SLASH) THEN SliceDropLast(f1) ELSE f1
               IN f2
        ELSE <<>>
  IN dirPart \o filePart

\* variant: a directory without a file name gets no '/' behind it
_getFilePath_BareDirectory(directory, fileName) ==
  LET dir ==
        IF directory # <<>> /\ directory # SLASH
          THEN LET d1 == IF StartsWith(directory, SLASH) THEN SliceFrom(directory, 1) ELSE directory
               IN IF EndsWith(d1, SLASH) THEN SliceDropLast(d1) ELSE d1
        ELSE <<>>
      file ==
        IF fileName # <<>>
          THEN LET f1 == IF StartsWith(fileName, SLASH) THEN SliceFrom(fileName, 1) ELSE fileName
               IN IF EndsWith(f1, SLASH) THEN SliceDropLast(f1) ELSE f1
        ELSE <<>>
  IN IF dir # <<>> /\ file # <<>> THEN dir \o SLASH \o file ELSE dir \o file

\* lines 54-75
_getFilePath(directory, fileName) ==
  LET dirPart ==
        IF directory # <<>> /\ directory # SLASH
          THEN LET d1 == IF StartsWith(directory, SLASH) THEN SliceFrom(directory, 1) ELSE directory
                   d2 == IF EndsWith(d1, SLASH) THEN SliceDropLast(d1) ELSE d1
               IN d2 \o SLASH
        ELSE <<>>
      filePart ==
        IF fileName # <<>>
          THEN LET f1 == IF StartsWith(fileName, SLASH) THEN SliceFrom(fileName, 1) ELSE fileName
                   f2 == IF EndsWith(f1, SLASH) THEN SliceDropLast(f1) ELSE f1
               IN f2
        ELSE <<>>
  IN dirPart \o filePart

_getFullStorageUrl(directory, fileName) ==
  baseURL \o storageZoneName \o SLASH \o _getFilePath(directory, fileName)

\* variant: the zone prefix is left on the path
_getRemotePathFromFileWithoutStorageZone_PrefixKept(file) == file.Path

_getRemotePathFromFileWithoutStorageZone(file) ==
  LET remotePath == file.Path IN
  IF StartsWith(remotePath, SLASH \o storageZoneName \o SLASH)
    THEN SliceFrom(remotePath, Len(storageZoneName) + 2)
  ELSE remotePath

\* ------------------------------------------------------------------------
\* The environment: the remote store and the local filesystem
\* ------------------------------------------------------------------------
File(name, dir) == [ObjectName |-> name, IsDirectory |-> FALSE, Path |-> SLASH \o storageZoneName \o SLASH \o dir]

Dir(name, dir) == [ObjectName |-> name, IsDirectory |-> TRUE, Path |-> SLASH \o storageZoneName \o SLASH \o dir]

\* What the store holds before any upload, keyed by directory (relative to the
\* zone, no leading or trailing '/'), each directory in the order the store
\* reports it:   /a   /s/   /s/t/   /s/a   /s/t/d.x
RemoteTree ==
  ( <<>>               :> << File(<<"a">>, <<>>), Dir(<<"s">>, <<>>) >> ) @@
  ( <<"s">>            :> << Dir(<<"t">>, <<"s", "/">>), File(<<"a">>, <<"s", "/">>) >> ) @@
  ( <<"s", "/", "t">>  :> << File(<<"d", ".", "x">>, <<"s", "/", "t", "/">>) >> )

\* the URL the store serves the listing of directory d at (spec section 6)
ListUrlOf(d) == baseURL \o storageZoneName \o SLASH \o (IF d = <<>> THEN <<>> ELSE d \o SLASH)

ServerKnowsDir(url) == \E d \in DOMAIN RemoteTree : ListUrlOf(d) = url

ServerListing(url) == RemoteTree[CHOOSE d \in DOMAIN RemoteTree : ListUrlOf(d) = url]

\* The local tree that uploadFolder reads, each directory in readdir order:
\*   L/a/   L/a/b/   L/a/b/h   L/a/f   L/f   L/g.x
LocalTree ==
  ( <<"L">>                      :> << [name |-> <<"a">>, isDir |-> TRUE],
                                       [name |-> <<"f">>, isDir |-> FALSE],
                                       [name |-> <<"g", ".", "x">>, isDir |-> FALSE] >> ) @@
  ( <<"L", "/", "a">>            :> << [name |-> <<"b">>, isDir |-> TRUE],
                                       [name |-> <<"f">>, isDir |-> FALSE] >> ) @@
  ( <<"L", "/", "a", "/", "b">>  :> << [name |-> <<"h">>, isDir |-> FALSE] >> )

\* fse.pathExists for a directory
LocalDirExists(p) == PathNormalize(p) \in DOMAIN LocalTree

\* fse.lstatSync(p).isDirectory()
LocalIsDirectory(p) == PathNormalize(p) \in DOMAIN LocalTree

\* ------------------------------------------------------------------------
\* axios with axios-retry (src/index.mjs 39-44): only `retries` and
\* `retryDelay` are configured, so the library's default retry condition
\* decides: a network error or a 5xx response on an idempotent method.
\* ------------------------------------------------------------------------
Outcomes == {"ok", "net", "5xx", "4xx"}

Methods == {"LIST", "GET", "PUT", "DELETE"}

\* variant: a retry condition that accepts every failure
IsRetryable_AnyFailure(outcome) == outcome # "ok"

IsRetryable(outcome) == outcome \in {"net", "5xx"}

\* variant: the last allowed retry is never made
ShouldRetry_OffByOne(outcome, attempt, retries) == IsRetryable(outcome) /\ attempt < retries

\* variant: one retry more than `retries` is made
ShouldRetry_OneMore(outcome, attempt, retries) == IsRetryable(outcome) /\ attempt <= retries + 1

\* may attempt number `attempt` (1-based), which failed, be followed by another
ShouldRetry(outcome, attempt, retries) == IsRetryable(outcome) /\ attempt <= retries

RECURSIVE AxiosAttempt(_, _, _)
\* script[i] is what the transport answers to attempt i
AxiosAttempt(script, attempt, retries) ==
  LET outcome == script[attempt] IN
  IF outcome = "ok" THEN [ok |-> TRUE, attempts |-> attempt, error |-> "none"]
  ELSE IF ShouldRetry(outcome, attempt, retries) THEN AxiosAttempt(script, attempt + 1, retries)
  ELSE [ok |-> FALSE, attempts |-> attempt, error |-> outcome]

AxiosRequest(script, retries) == AxiosAttempt(script, 1, retries)

\* one answer more than the policy can ask for, so that an attempt too many shows
Scripts(retries) == [1..(retries + 2) -> Outcomes]

\* ------------------------------------------------------------------------
\* State
\* ------------------------------------------------------------------------
VARIABLES
  concurrency,   \* constructor argument: capacity of the gate
  retryCount,    \* constructor argument: axios-retry `retries`
  free,          \* this.sema: number of free tokens
  waiting,       \* this.sema: FIFO of the calls suspended in acquire()
  calls,         \* the calls made on the instance, by caller slot
  store,         \* remote store: URLs of the objects uploaded so far
  disk,          \* local disk: path -> "partial" | "complete" for every file a download
                 \* opened, "dir" for every directory ensureDir was called on
  tr,            \* one transport call observed attempt by attempt
  pm,            \* one call of a path-mapper function: its arguments and its result
  pl             \* one listFiles of the p-limit revision: its tree of sub-listings

vars == <<concurrency, retryCount, free, waiting, calls, store, disk, tr, pm, pl>>

Calls == 1..MaxCalls

IdleCall ==
  [pc |-> "idle", kind |-> "none", remoteDirectory |-> <<>>, localDirectory |-> <<>>,
   recursive |-> FALSE, excludedFileTypes |-> <<>>,
   stack |-> <<>>, todo |-> <<>>, out |-> <<>>, holds |-> 0, log |-> <<>>, err |-> <<>>,
   fileFilter |-> [given |-> FALSE, rejects |-> {}], asked |-> <<>>, raised |-> <<>>,
   localFilePath |-> <<>>, fileName |-> <<>>, dirsRead |-> <<>>]

NoMapping == [op |-> "none", directory |-> <<>>, fileName |-> <<>>, status |-> "none",
              raised |-> FALSE, result |-> <<>>]

NoListing == [tree |-> <<>>, recursive |-> FALSE, st |-> <<>>]

NoTransport == [method |-> "none", script |-> <<>>, status |-> "none", attempts |-> 0, error |-> "none"]

\* arguments the callers pass
ListDirArgs == {SLASH, <<"s">>}

UploadRemoteArgs == {<<"u">>}

ExcludedArgs == {<<>>, << <<".", "x">> >>}

\* variant: no extension is ever found in excludedFileTypes
Includes_Never(arr, x) == FALSE

\* Array.prototype.includes
Includes(arr, x) == \E i \in 1..Len(arr) : arr[i] = x

\* ------------------------------------------------------------------------
\* listFiles (src/index.mjs 116-148)
\* ------------------------------------------------------------------------
\* variant: no directory is expanded
IsExpanded_Never(file, recursive) == FALSE

\* variant: every directory is expanded, whatever `recursive` says
IsExpanded_Always(file, recursive) == file.IsDirectory

\* line 132: is this entry replaced by the listing of the directory it names
IsExpanded(file, recursive) == file.IsDirectory /\ recursive

\* line 133: the remoteDirectory argument of the nested call
SubDirectoryOf(file) == _getRemotePathFromFileWithoutStorageZone(file) \o file.ObjectName

NewFrame(remoteDirectory) == [remoteDirectory |-> remoteDirectory, todo |-> <<>>, files |-> <<>>]

RECURSIVE RunListing(_, _)
\* Runs the `for (const file of response.data)` loops of the nested listFiles
\* frames (innermost last) until a nested call issues its request or the
\* outermost frame returns.
RunListing(stack, recursive) ==
  LET n   == Len(stack)
      top == stack[n]
  IN IF top.todo = <<>>
       THEN IF n = 1 THEN [done |-> TRUE, files |-> top.files, stack |-> <<>>]
            ELSE RunListing(SubSeq(stack, 1, n - 2)
                              \o << [stack[n - 1] EXCEPT !.files = @ \o top.files] >>, recursive)
     ELSE LET file == Head(top.todo)
              rest == [top EXCEPT !.todo = Tail(@)]
          IN IF IsExpanded(file, recursive)
               THEN [done |-> FALSE, files |-> <<>>,
                     stack |-> SubSeq(stack, 1, n - 1) \o << rest, NewFrame(SubDirectoryOf(file)) >>]
             ELSE RunListing(SubSeq(stack, 1, n - 1)
                               \o << [rest EXCEPT !.files = Append(@, file)] >>, recursive)

LogEntry(method, url, item) == [method |-> method, url |-> url, item |-> item, res |-> "pending"]

SetLastRes(log, res) == [log EXCEPT ![Len(log)].res = res]

RECURSIVE FilesOfFrames(_)
FilesOfFrames(stack) == IF stack = <<>> THEN <<>> ELSE Head(stack).files \o FilesOfFrames(Tail(stack))

\* variant: a catch block throws a new error that wraps the one it caught
Rethrow_Wrapped(error) == << "wrapped" >> \o error

\* lines 144-147, 178-181, 229-232, 344-347, 400-403: every catch block the
\* error passes on its way to the caller logs it and does `throw error`
Rethrow(error) == error

\* variant: the failure is swallowed and the entries collected so far returned
ListFilesFailed_Partial(call, error) ==
  [call EXCEPT !.pc = "resolved", !.out = FilesOfFrames(call.stack), !.stack = <<>>,
               !.log = SetLastRes(@, "failed")]

\* lines 144-147: a failed listing request is rethrown through every frame
ListFilesFailed(call, error) ==
  [call EXCEPT !.pc = "rejected", !.stack = <<>>, !.todo = <<>>, !.out = <<>>, !.raised = Append(@, error), !.err = Rethrow(error),
               !.log = SetLastRes(@, "failed")]

\* ------------------------------------------------------------------------
\* _getLocalFiles (src/index.mjs 272-291)
\* ------------------------------------------------------------------------
\* line 280: the nested call passes no `recursive`, so its default applies
NestedRecursiveArg(recursive) == FALSE

\* variant: subdirectories are entered whatever `recursive` says
EntersDirectory_Always(recursive) == TRUE

\* line 280: a subdirectory is read only when `recursive` is set
EntersDirectory(recursive) == recursive

RECURSIVE LocalFilesOf(_, _, _, _)
LocalFilesOf(root, dir, items, recursive) ==
  IF items = <<>> THEN <<>>
  ELSE LET item == Head(items)
           fullPath == PathJoin(dir, item.name)
           here == IF item.isDir
                     THEN IF EntersDirectory(recursive)
                            THEN LocalFilesOf(root, fullPath, LocalTree[fullPath], NestedRecursiveArg(recursive))
                          ELSE <<>>
                   ELSE << PathRelative(root, fullPath) >>
       IN here \o LocalFilesOf(root, dir, Tail(items), recursive)

_getLocalFiles(root, dir, recursive) == LocalFilesOf(root, dir, LocalTree[PathNormalize(dir)], recursive)

RECURSIVE SubDirsRead(_, _, _)
\* lines 275-280: the subdirectories the walk calls fse.readdir on, in order
SubDirsRead(dir, items, recursive) ==
  IF items = <<>> THEN <<>>
  ELSE LET item == Head(items)
           fullPath == PathJoin(dir, item.name)
           here == IF item.isDir /\ EntersDirectory(recursive)
                     THEN << fullPath >> \o SubDirsRead(fullPath, LocalTree[fullPath],
                                                        NestedRecursiveArg(recursive))
                   ELSE <<>>
       IN here \o SubDirsRead(dir, Tail(items), recursive)

\* the directories _getLocalFiles(root, root, recursive) reads
DirsReadBy(dir, recursive) ==
  << PathNormalize(dir) >> \o SubDirsRead(dir, LocalTree[PathNormalize(dir)], recursive)

\* ------------------------------------------------------------------------
\* The gate: async-sema's Sema as constructed at src/index.mjs 24
\* ------------------------------------------------------------------------
\* variant: acquire() never suspends
CanAcquire_Always(f) == TRUE

\* acquire() takes a free token at once, else the caller queues
CanAcquire(f) == f > 0

\* variant: release() returns the token to the pool even when it wakes a waiter
FreeAfterRelease_AlwaysReturn(f, w) == f + 1

\* release() hands the token to the first waiter, or returns it to the pool
FreeAfterRelease(f, w) == IF w # <<>> THEN f ELSE f + 1

WaitingAfterRelease(w) == IF w # <<>> THEN Tail(w) ELSE w

\* ------------------------------------------------------------------------
\* uploadFolder / downloadFolder: the body of one loop iteration
\* ------------------------------------------------------------------------
\* lines 327-329 and 166-168: the PUT url of a file name of the upload loop
UploadFilePath(call, fileName) == PathJoin(call.localDirectory, fileName)

UploadUrl(call, fileName) ==
  _getFullStorageUrl(call.remoteDirectory, PathBasename(UploadFilePath(call, fileName)))

\* lines 383-389 and 201: the GET url and the local destination of an entry
DownloadUrl(file) ==
  _getFullStorageUrl(_getRemotePathFromFileWithoutStorageZone(file), file.ObjectName)

\* variant: the destination follows the remote path whatever `recursive` says
DownloadDestination_AlwaysJoined(call, file) ==
  PathJoin(call.localDirectory, _getRemotePathFromFileWithoutStorageZone(file))

\* lines 383-387
DownloadDestination(call, file) ==
  LET remotePath == _getRemotePathFromFileWithoutStorageZone(file) IN
  IF call.recursive /\ remotePath # <<>> THEN PathJoin(call.localDirectory, remotePath)
  ELSE call.localDirectory

\* line 210
DownloadLocalPath(call, file) == PathJoin(DownloadDestination(call, file), file.ObjectName)

\* variant: the transfer is started but not awaited, the operation returns
EnterTransfer_Detached(call) ==
  [call EXCEPT !.pc = "resolved", !.holds = @ + 1,
               !.log = Append(@, LogEntry(IF call.kind = "upload" THEN "PUT" ELSE "GET",
                                          <<>>, Head(call.todo)))]

\* The call holds a token and runs up to its transfer's request: uploadFile up
\* to axios.put, downloadFile up to axios.get (lines 194-197: an empty
\* fileName throws before any request).
EnterTransfer(call) ==
  LET item == Head(call.todo) IN
  IF call.kind = "upload"
    THEN [call EXCEPT !.pc = "putting", !.holds = @ + 1,
                      !.log = Append(@, LogEntry("PUT", UploadUrl(call, item), item))]
  ELSE IF item.ObjectName = <<>>
    THEN [call EXCEPT !.pc = "rejected", !.holds = @ + 1, !.raised = Append(@, <<"no file name">>), !.err = Rethrow(<<"no file name">>)]
  ELSE [call EXCEPT !.pc = "getting", !.holds = @ + 1,
                    !.log = Append(@, LogEntry("GET", DownloadUrl(item), item))]

\* lines 324-325 / 379-381: the loop head.  Yields the call's next record and
\* the gate after it.
LoopHead(call, c, f, w) ==
  IF call.todo = <<>>
    THEN [call |-> [call EXCEPT !.pc = "resolved"], free |-> f, waiting |-> w]
  ELSE IF CanAcquire(f)
    THEN [call |-> EnterTransfer(call), free |-> f - 1, waiting |-> w]
  ELSE [call |-> [call EXCEPT !.pc = "acquiring"], free |-> f, waiting |-> Append(w, c)]

\* variant: the newest path is put in front
Collected_Prepended(out, result) == << result >> \o out

\* lines 335 / 390: uploadedFiles.push(fileName), downloadPaths.push(downloadPath)
Collected(out, result) == Append(out, result)

\* lines 335-339 / 390-395: the transfer of the head item succeeded: record it,
\* release the token (waking the first waiter), go to the loop head.
AfterTransfer(c, result) ==
  LET call == calls[c]
      done == [call EXCEPT !.out = Collected(@, result), !.todo = Tail(@), !.holds = @ - 1,
                           !.log = SetLastRes(@, "ok")]
      f1   == FreeAfterRelease(free, waiting)
      w1   == WaitingAfterRelease(waiting)
      next == LoopHead(done, c, f1, w1)
  IN /\ free' = next.free
     /\ waiting' = next.waiting
     /\ calls' = [x \in Calls |->
                    IF x = c THEN next.call
                    ELSE IF waiting # <<>> /\ x = Head(waiting) THEN EnterTransfer(calls[x])
                    ELSE calls[x]]

\* variant: the catch block deletes what the call had uploaded
StoreAfterBulkError_Rollback(st, call) ==
  st \ {call.log[i].url : i \in {j \in 1..Len(call.log) : call.log[j].method = "PUT"}}

\* lines 344-347 / 400-403: the catch block of a bulk operation logs and
\* rethrows; these are the store and the gate it leaves behind
StoreAfterBulkError(st, call) == st

FreeAfterBulkError(f, call) == f

\* variant: the failure of one file is caught inside the loop, the loop goes on
\* with the next file, and the operation rejects after the last one
BulkFailed_KeepsGoing(call, error) ==
  IF Len(call.todo) > 1
    THEN EnterTransfer([call EXCEPT !.todo = Tail(@), !.holds = @ - 1,
                                    !.raised = Append(@, error), !.log = SetLastRes(@, "failed")])
  ELSE [call EXCEPT !.pc = "rejected", !.raised = Append(@, error), !.err = Rethrow(error),
                    !.log = SetLastRes(@, "failed")]

BulkFailed(call, error) ==
  [call EXCEPT !.pc = "rejected", !.raised = Append(@, error), !.err = Rethrow(error), !.log = SetLastRes(@, "failed")]

\* ------------------------------------------------------------------------
\* Actions
\* ------------------------------------------------------------------------
\* what the transport answers to every attempt of one request: the condition
\* `o` of the network persists over the retries of that request; a listing
\* url the store does not serve is answered 404
PersistentScript(o) == [i \in 1..(retryCount + 2) |-> o]

\* callers take the lowest free caller slot
IsNextSlot(c) == calls[c].pc = "idle" /\ \A x \in Calls : x < c => calls[x].pc # "idle"

SetCall(c, call) == calls' = [calls EXCEPT ![c] = call]

\* listFiles(remoteDirectory, recursive) up to its axios.get (lines 116-127)
StartListFiles(c, remoteDirectory, recursive) ==
  /\ IsNextSlot(c)
  /\ SetCall(c, [IdleCall EXCEPT !.pc = "listing", !.kind = "list",
                   !.remoteDirectory = remoteDirectory, !.recursive = recursive,
                   !.stack = << NewFrame(remoteDirectory) >>,
                   !.log = << LogEntry("LIST", _getFullStorageUrl(remoteDirectory, <<>>), remoteDirectory) >>])
  /\ UNCHANGED <<concurrency, retryCount, free, waiting, store, disk, tr, pm, pl>>

\* downloadFolder(...) up to the axios.get of its listFiles (lines 356-358)
StartDownloadFolder(c, remoteDirectory, localDirectory, recursive, excludedFileTypes) ==
  /\ IsNextSlot(c)
  /\ SetCall(c, [IdleCall EXCEPT !.pc = "listing", !.kind = "download",
                   !.remoteDirectory = remoteDirectory, !.localDirectory = localDirectory,
                   !.recursive = recursive, !.excludedFileTypes = excludedFileTypes,
                   !.stack = << NewFrame(remoteDirectory) >>,
                   !.log = << LogEntry("LIST", _getFullStorageUrl(remoteDirectory, <<>>), remoteDirectory) >>])
  /\ UNCHANGED <<concurrency, retryCount, free, waiting, store, disk, tr, pm, pl>>

\* lines 312-318
FileNamesToUpload(fileNames, excludedFileTypes) ==
  LET Keep(fileName) == ~Includes(excludedFileTypes, PathExtname(fileName))
  IN IF Len(excludedFileTypes) > 0 THEN SelectSeq(fileNames, Keep) ELSE fileNames

\* lines 360-371
FilesToDownload(files, excludedFileTypes) ==
  LET KeepA(file) == file.IsDirectory = FALSE /\ ~Includes(excludedFileTypes, PathExtname(file.ObjectName))
      KeepB(file) == file.IsDirectory = FALSE
  IN IF Len(excludedFileTypes) > 0 THEN SelectSeq(files, KeepA) ELSE SelectSeq(files, KeepB)

\* uploadFolder(...) up to the first suspension of its loop (lines 300-329)
\* variant: the directory is read before its existence is looked at
UploadFolderPreflightFailed_ReadFirst(call) ==
  [call EXCEPT !.pc = "rejected", !.dirsRead = << call.localDirectory >>,
               !.raised = Append(@, <<"no such directory">>), !.err = Rethrow(<<"no such directory">>)]

\* lines 302-306: the directory does not exist, uploadFolder throws
UploadFolderPreflightFailed(call) ==
  [call EXCEPT !.pc = "rejected",
               !.raised = Append(@, <<"no such directory">>), !.err = Rethrow(<<"no such directory">>)]

StartUploadFolder(c, localDirectory, remoteDirectory, recursive, excludedFileTypes) ==
  /\ IsNextSlot(c)
  /\ LET call == [IdleCall EXCEPT !.kind = "upload",
                    !.remoteDirectory = remoteDirectory, !.localDirectory = localDirectory,
                    !.recursive = recursive, !.excludedFileTypes = excludedFileTypes]
     IN IF ~LocalDirExists(localDirectory)
          THEN /\ SetCall(c, UploadFolderPreflightFailed(call))
               /\ UNCHANGED <<free, waiting>>
        ELSE LET fileNames == FileNamesToUpload(_getLocalFiles(localDirectory, localDirectory, recursive),
                                                excludedFileTypes)
                 next == LoopHead([call EXCEPT !.todo = fileNames,
                                               !.dirsRead = DirsReadBy(localDirectory, recursive)],
                                  c, free, waiting)
             IN /\ SetCall(c, next.call)
                /\ free' = next.free
                /\ waiting' = next.waiting
  /\ UNCHANGED <<concurrency, retryCount, store, disk, tr, pm, pl>>

\* the listing request of the innermost listFiles frame settles (lines 122-148;
\* for downloadFolder on to the first suspension of its loop, lines 358-381)
ListingResponds(c) ==
  /\ calls[c].pc = "listing"
  /\ \E o \in Outcomes :
       LET call == calls[c]
           url  == call.log[Len(call.log)].url
           r    == AxiosRequest(PersistentScript(IF ServerKnowsDir(url) THEN o ELSE "4xx"), retryCount)
       IN IF ~r.ok
            THEN /\ SetCall(c, ListFilesFailed(call, << r.error >>))
                 /\ store' = (IF call.kind = "download" THEN StoreAfterBulkError(store, call) ELSE store)
                 /\ free' = (IF call.kind = "download" THEN FreeAfterBulkError(free, call) ELSE free)
                 /\ UNCHANGED waiting
          ELSE LET n     == Len(call.stack)
                   stack == [call.stack EXCEPT ![n].todo = ServerListing(url)]
                   run   == RunListing(stack, call.recursive)
                   seen  == [call EXCEPT !.log = SetLastRes(@, "ok")]
               IN IF ~run.done
                    THEN /\ SetCall(c, [seen EXCEPT !.stack = run.stack,
                                          !.log = Append(@, LogEntry("LIST",
                                                    _getFullStorageUrl(run.stack[Len(run.stack)].remoteDirectory, <<>>),
                                                    run.stack[Len(run.stack)].remoteDirectory))])
                         /\ UNCHANGED <<free, waiting, store>>
                  ELSE IF call.kind = "list"
                    THEN /\ SetCall(c, [seen EXCEPT !.pc = "resolved", !.stack = <<>>, !.out = run.files])
                         /\ UNCHANGED <<free, waiting, store>>
                  ELSE LET next == LoopHead([seen EXCEPT !.stack = <<>>,
                                               !.todo = FilesToDownload(run.files, call.excludedFileTypes)],
                                            c, free, waiting)
                       IN /\ SetCall(c, next.call)
                          /\ free' = next.free
                          /\ waiting' = next.waiting
                          /\ UNCHANGED store
  /\ UNCHANGED <<concurrency, retryCount, disk, tr, pm, pl>>

\* the PUT of uploadFile settles (lines 177-182), then lines 331-340 or 344-347
PutResponds(c) ==
  /\ calls[c].pc = "putting"
  /\ \E o \in Outcomes :
       LET call     == calls[c]
           fileName == Head(call.todo)
           url      == call.log[Len(call.log)].url
           r        == AxiosRequest(PersistentScript(o), retryCount)
       IN IF ~r.ok
            THEN /\ SetCall(c, BulkFailed(call, << r.error >>))
                 /\ store' = StoreAfterBulkError(store, call)
                 /\ free' = FreeAfterBulkError(free, call)
                 /\ UNCHANGED waiting
          ELSE IF call.recursive /\ LocalIsDirectory(UploadFilePath(call, fileName))
            \* line 332: the nested uploadFolder; _getLocalFiles yields no
            \* directory, so no state takes this branch
            THEN /\ SetCall(c, [call EXCEPT !.pc = "nested"])
                 /\ store' = store \cup {url}
                 /\ UNCHANGED <<free, waiting>>
          ELSE /\ store' = store \cup {url}
               /\ AfterTransfer(c, fileName)
  /\ UNCHANGED <<concurrency, retryCount, disk, tr, pm, pl>>

SetFile(d, path, state) == [x \in (DOMAIN d) \cup {path} |-> IF x = path THEN state ELSE d[x]]

\* lines 212-216: ensureDir(localDirectory), then the file is opened for writing
DiskAfterOpen(d, localDirectory, localPath) ==
  SetFile(SetFile(d, StripTrailingSlashes(PathNormalize(localDirectory)), "dir"), localPath, "partial")

\* the GET of downloadFile settles (lines 203-216): on success the local file is
\* opened and the body piped into it
GetResponds(c) ==
  /\ calls[c].pc = "getting"
  /\ \E o \in Outcomes :
       LET call == calls[c]
           r    == AxiosRequest(PersistentScript(o), retryCount)
       IN IF ~r.ok
            THEN /\ SetCall(c, BulkFailed(call, << r.error >>))
                 /\ store' = StoreAfterBulkError(store, call)
                 /\ free' = FreeAfterBulkError(free, call)
                 /\ UNCHANGED <<waiting, disk>>
          ELSE /\ SetCall(c, [call EXCEPT !.pc = "streaming", !.log = SetLastRes(@, "ok")])
               /\ disk' = DiskAfterOpen(disk, DownloadDestination(call, Head(call.todo)),
                                        DownloadLocalPath(call, Head(call.todo)))
               /\ UNCHANGED <<free, waiting, store>>
  /\ UNCHANGED <<concurrency, retryCount, tr, pm, pl>>

\* the write stream emits 'finish' (lines 220-223), then lines 390-396
StreamFinishes(c) ==
  /\ calls[c].pc = "streaming"
  /\ LET localPath == DownloadLocalPath(calls[c], Head(calls[c].todo))
     IN /\ disk' = SetFile(disk, localPath, "complete")
        /\ AfterTransfer(c, localPath)
  /\ UNCHANGED <<concurrency, retryCount, store, tr, pm, pl>>

\* the write stream emits 'error' (lines 224-227): reject(localPath), then 400-403
StreamErrors(c) ==
  /\ calls[c].pc = "streaming"
  /\ LET call == calls[c]
         localPath == DownloadLocalPath(call, Head(call.todo))
     IN /\ SetCall(c, [call EXCEPT !.pc = "rejected", !.raised = Append(@, localPath), !.err = Rethrow(localPath)])
        /\ store' = StoreAfterBulkError(store, call)
        /\ free' = FreeAfterBulkError(free, call)
  /\ UNCHANGED <<concurrency, retryCount, waiting, disk, tr, pm, pl>>

\* The response body (response.data, piped at line 216) fails or is aborted
\* before its end.  pipe() neither ends nor fails the write stream when its
\* source fails, and downloadFile attaches no listener to response.data, so
\* neither handler of lines 220-227 runs from here on: the promise of line 219
\* stays pending, and a downloadFolder awaiting it (389) keeps its token.
ResponseStreamFails(c) ==
  /\ calls[c].pc = "streaming" /\ calls[c].kind \in {"download", "downloadFile"}
  /\ SetCall(c, [calls[c] EXCEPT !.pc = "stalled"])
  /\ UNCHANGED <<concurrency, retryCount, free, waiting, store, disk, tr, pm, pl>>

\* the caller has consumed the settled promise; its slot makes the next call
Forget(c) ==
  /\ calls[c].pc \in {"resolved", "rejected"}
  /\ SetCall(c, IdleCall)
  /\ UNCHANGED <<concurrency, retryCount, free, waiting, store, disk, tr, pm, pl>>

Init ==
  /\ concurrency \in 1..MaxConcurrency
  /\ retryCount = MaxRetries
  /\ free = concurrency
  /\ waiting = <<>>
  /\ calls = [c \in Calls |-> IdleCall]
  /\ store = {}
  /\ disk = <<>>
  /\ tr = NoTransport
  /\ pm = NoMapping
  /\ pl = NoListing

\* the calls that settle, whatever started them
Settles ==
  \/ \E c \in Calls : ListingResponds(c)
  \/ \E c \in Calls : PutResponds(c)
  \/ \E c \in Calls : GetResponds(c)
  \/ \E c \in Calls : StreamFinishes(c)
  \/ \E c \in Calls : StreamErrors(c)
  \/ \E c \in Calls : ResponseStreamFails(c)
  \/ \E c \in Calls : Forget(c)

\* no call is outstanding
Quiet == \A c \in Calls : calls[c].pc = "idle"

\* A caller that awaits each call before it makes the next one, with every
\* argument combination.
Next ==
  \/ \E c \in Calls, d \in ListDirArgs, r \in BOOLEAN : Quiet /\ StartListFiles(c, d, r)
  \/ \E c \in Calls, d \in ListDirArgs, r \in BOOLEAN, x \in ExcludedArgs :
       Quiet /\ StartDownloadFolder(c, d, <<"R">>, r, x)
  \/ \E c \in Calls, l \in {<<"L">>, <<"N">>}, d \in UploadRemoteArgs, r \in BOOLEAN, x \in ExcludedArgs :
       Quiet /\ StartUploadFolder(c, l, d, r, x)
  \/ Settles

Spec == Init /\ [][Next]_vars

\* Up to MaxCalls callers whose calls overlap: a listing of /s, a recursive
\* download of /s (two listing requests, two files) and a flat upload of L
\* (two files).
NextOverlap ==
  \/ \E c \in Calls : StartListFiles(c, <<"s">>, FALSE)
  \/ \E c \in Calls : StartDownloadFolder(c, <<"s">>, <<"R">>, TRUE, <<>>)
  \/ \E c \in Calls : StartUploadFolder(c, <<"L">>, <<"u">>, FALSE, <<>>)
  \/ Settles

SpecOverlap == Init /\ [][NextOverlap]_vars

\* ------------------------------------------------------------------------
\* One transport call on its own, under every script of answers
\* ------------------------------------------------------------------------
InitTransport ==
  /\ concurrency = 1
  /\ retryCount \in 0..MaxRetries
  /\ free = concurrency
  /\ waiting = <<>>
  /\ calls = [c \in Calls |-> IdleCall]
  /\ store = {}
  /\ disk = <<>>
  /\ pm = NoMapping
  /\ pl = NoListing
  /\ \E m \in Methods, s \in Scripts(retryCount) :
       tr = [method |-> m, script |-> s, status |-> "pending", attempts |-> 0, error |-> "none"]

\* axios.get / axios.put / axios.delete with the retry interceptor installed
TransportCall ==
  /\ tr.status = "pending"
  /\ LET r == AxiosRequest(tr.script, retryCount)
     IN tr' = [tr EXCEPT !.status = IF r.ok THEN "ok" ELSE "failed",
                         !.attempts = r.attempts, !.error = r.error]
  /\ UNCHANGED <<concurrency, retryCount, free, waiting, calls, store, disk, pm, pl>>

NextTransport == TransportCall

SpecTransport == InitTransport /\ [][NextTransport]_vars

\* ------------------------------------------------------------------------
\* The path mapper called on its own (src/index.mjs 54-109) with every
\* string over a small alphabet, the empty string and strings of slashes
\* included.  An omitted fileName is undefined, which the code's
\* `if (fileName)` treats as the empty string.
\* ------------------------------------------------------------------------
MaxLen == 3            \* longest directory, fileName and path (below the zone) tried

Chars == {"/", "z", "a"}

StringsUpTo(n) == UNION {[1..k -> Chars] : k \in 0..n}

\* the Path values tried: any string, and any string behind the zone prefix
PathsUpTo(n) == StringsUpTo(n) \cup {SLASH \o storageZoneName \o SLASH \o s : s \in StringsUpTo(n)}

\* variant: a function throws when its first argument is the empty string
MapperRaises_OnEmpty(op, directory, fileName) == directory = <<>>

\* lines 55-74, 85-91, 101-108: the statements inside the try blocks are
\* truthiness tests, startsWith, endsWith, slice and concatenation, none of
\* which throws for a string (or undefined fileName), so no catch block runs
MapperRaises(op, directory, fileName) == FALSE

\* what the call of function `op` yields
MapperResult(op, directory, fileName) ==
  CASE op = "_getFilePath" -> _getFilePath(directory, fileName)
    [] op = "_getFullStorageUrl" -> _getFullStorageUrl(directory, fileName)
    [] op = "_getRemotePathFromFileWithoutStorageZone" ->
         _getRemotePathFromFileWithoutStorageZone([Path |-> directory])

InitPaths ==
  /\ concurrency = 1
  /\ retryCount = 0
  /\ free = concurrency
  /\ waiting = <<>>
  /\ calls = [c \in Calls |-> IdleCall]
  /\ store = {}
  /\ disk = <<>>
  /\ tr = NoTransport
  /\ pl = NoListing
  /\ \/ \E op \in {"_getFilePath", "_getFullStorageUrl"}, d \in StringsUpTo(MaxLen), f \in StringsUpTo(MaxLen) :
          pm = [NoMapping EXCEPT !.op = op, !.directory = d, !.fileName = f, !.status = "called"]
     \/ \E p \in PathsUpTo(MaxLen) :
          pm = [NoMapping EXCEPT !.op = "_getRemotePathFromFileWithoutStorageZone",
                                 !.directory = p, !.status = "called"]

\* the function runs to its return or to the throw of its catch block
MapperCall ==
  /\ pm.status = "called"
  /\ pm' = IF MapperRaises(pm.op, pm.directory, pm.fileName)
             THEN [pm EXCEPT !.status = "returned", !.raised = TRUE]
           ELSE [pm EXCEPT !.status = "returned",
                           !.result = MapperResult(pm.op, pm.directory, pm.fileName)]
  /\ UNCHANGED <<concurrency, retryCount, free, waiting, calls, store, disk, tr, pl>>

NextPaths == MapperCall

SpecPaths == InitPaths /\ [][NextPaths]_vars

\* ------------------------------------------------------------------------
\* listFiles of the p-limit revision (src/readme.md 920-1052).  The gate is
\* this.limit = pLimit(concurrency): `free` is the capacity less p-limit's
\* activeCount, `waiting` its queue.  Every sub-listing is a function handed
\* to this.limit; it holds its slot until its own listFiles has settled,
\* which waits (Promise.all) for the sub-listings it handed to this.limit.
\* pl.st gives each directory's listFiles: "none", "queued" in the limiter,
\* "requesting" (axios.get in flight), "awaiting" (Promise.all), "done",
\* "failed".
\* ------------------------------------------------------------------------
PLDirs == {"root", "s", "t", "u", "v"}

\* the remote trees listed: directory -> its subdirectories in listing order
ChainTree == [d \in PLDirs |-> CASE d = "root" -> <<"s">> [] d = "s" -> <<"t">> [] OTHER -> <<>>]

ForkTree ==
  [d \in PLDirs |-> CASE d = "root" -> <<"s", "u">> [] d = "s" -> <<"t">> [] d = "u" -> <<"v">>
                      [] OTHER -> <<>>]

FlatTree == [d \in PLDirs |-> CASE d = "root" -> <<"s", "u">> [] OTHER -> <<>>]

DeepTree ==
  [d \in PLDirs |-> CASE d = "root" -> <<"s">> [] d = "s" -> <<"t", "u">> [] d = "t" -> <<"v">>
                      [] OTHER -> <<>>]

WideTree ==
  [d \in PLDirs |-> CASE d = "root" -> <<"s", "u">> [] d = "s" -> <<"t", "v">> [] OTHER -> <<>>]

PLTrees == {ChainTree, ForkTree, FlatTree, DeepTree, WideTree}

PLParent(tree, d) == CHOOSE p \in PLDirs : \E i \in 1..Len(tree[p]) : tree[p][i] = d

\* p-limit: a function that settles gives its slot to the head of the queue,
\* which starts and reaches its axios.get, or frees the slot
PLRelease(S) ==
  IF S.waiting # <<>>
    THEN [S EXCEPT !.st[Head(S.waiting)] = "requesting", !.waiting = Tail(@)]
  ELSE [S EXCEPT !.free = @ + 1]

RECURSIVE PLSettle(_, _, _, _)
\* readme.md 1043-1051: the listFiles of directory d settles with res; the
\* function wrapping it (1038) leaves the limiter; the Promise.all of the
\* parent resolves when its last sub-listing is done and rejects at the first
\* that failed
PLSettle(S, tree, d, res) ==
  LET S1 == [S EXCEPT !.st[d] = res] IN
  IF d = "root" THEN S1
  ELSE LET S2 == PLRelease(S1)
           p  == PLParent(tree, d)
       IN IF S2.st[p] # "awaiting" THEN S2
          ELSE IF res = "failed" THEN PLSettle(S2, tree, p, "failed")
          ELSE IF \A i \in 1..Len(tree[p]) : S2.st[tree[p][i]] = "done"
            THEN PLSettle(S2, tree, p, "done")
          ELSE S2

\* readme.md 1038: this.limit(() => this.listFiles(sub, recursive)): the
\* function starts if a slot is free and is queued otherwise
PLSubmit(S, d) ==
  IF S.free > 0 THEN [S EXCEPT !.st[d] = "requesting", !.free = @ - 1]
  ELSE [S EXCEPT !.st[d] = "queued", !.waiting = Append(@, d)]

RECURSIVE PLSubmitAll(_, _)
\* readme.md 1036-1040
PLSubmitAll(S, dirs) ==
  IF dirs = <<>> THEN S ELSE PLSubmitAll(PLSubmit(S, Head(dirs)), Tail(dirs))

PLState == [st |-> pl.st, free |-> free, waiting |-> waiting]

PLInstall(S) ==
  /\ pl' = [pl EXCEPT !.st = S.st]
  /\ free' = S.free
  /\ waiting' = S.waiting

InitPLimit ==
  /\ concurrency \in 1..MaxConcurrency
  /\ retryCount = 0
  /\ free = concurrency
  /\ waiting = <<>>
  /\ calls = [c \in Calls |-> IdleCall]
  /\ store = {}
  /\ disk = <<>>
  /\ tr = NoTransport
  /\ pm = NoMapping
  /\ \E tree \in PLTrees, r \in BOOLEAN :
       pl = [tree |-> tree, recursive |-> r, st |-> [d \in PLDirs |-> "none"]]

\* readme.md 1014-1027: the caller's listFiles('/', recursive) up to its axios.get
PLCallListFiles ==
  /\ pl.st["root"] = "none"
  /\ pl' = [pl EXCEPT !.st["root"] = "requesting"]
  /\ UNCHANGED <<concurrency, retryCount, free, waiting, calls, store, disk, tr, pm>>

\* readme.md 1021-1051: the listing request of directory d is answered
PLListingResponds(d) ==
  /\ pl.st[d] = "requesting"
  /\ \E ok \in BOOLEAN :
       IF ~ok THEN PLInstall(PLSettle(PLState, pl.tree, d, "failed"))
       ELSE IF pl.recursive /\ pl.tree[d] # <<>>
         THEN PLInstall(PLSubmitAll([PLState EXCEPT !.st[d] = "awaiting"], pl.tree[d]))
       ELSE PLInstall(PLSettle(PLState, pl.tree, d, "done"))
  /\ UNCHANGED <<concurrency, retryCount, calls, store, disk, tr, pm>>

NextPLimit ==
  \/ PLCallListFiles
  \/ \E d \in PLDirs : PLListingResponds(d)

SpecPLimit == InitPLimit /\ [][NextPLimit]_vars

\* the caller makes its call and every request in flight is answered
FairSpecPLimit ==
  /\ SpecPLimit
  /\ WF_vars(PLCallListFiles)
  /\ \A d \in PLDirs : WF_vars(PLListingResponds(d))

\* ------------------------------------------------------------------------
\* The options-record revision (src/readme.md 208-600): uploadFolder walks
\* the local tree one directory at a time and takes a fileFilter, as does
\* downloadFolder.  A fileFilter is modelled by the set of arguments it
\* answers false to; `asked` records the arguments it was called with.
\* ------------------------------------------------------------------------
MaxSurplus == 0        \* an uploadFolder starts only while free <= concurrency + MaxSurplus

NoFilter == [given |-> FALSE, rejects |-> {}]

FilterRejecting(args) == [given |-> TRUE, rejects |-> args]

\* the value the caller's predicate returns (src/test.js 55-58, 69-72)
FileFilterResult(filter, arg) == arg \notin filter.rejects

\* variant: the predicate's answer is ignored
OptFilterKeeps_Ignored(filter, arg) == TRUE

\* readme.md 516-519 and 561-562: without a fileFilter every file is kept
OptFilterKeeps(filter, arg) == filter.given => FileFilterResult(filter, arg)

\* readme.md 296-306
getRemotePathFromFileWithoutStorageZone(file) ==
  LET p0 == file.Path
      p1 == IF StartsWith(p0, SLASH \o storageZoneName \o SLASH)
              THEN SliceFrom(p0, Len(storageZoneName) + 2) ELSE p0
  IN IF p1 = <<>> THEN SLASH ELSE p1

\* readme.md 331-334
OptSubDirectoryOf(file) == getRemotePathFromFileWithoutStorageZone(file) \o file.ObjectName

RECURSIVE OptRunListing(_, _)
\* readme.md 327-343: the loops of the nested listFiles frames
OptRunListing(stack, recursive) ==
  LET n   == Len(stack)
      top == stack[n]
  IN IF top.todo = <<>>
       THEN IF n = 1 THEN [done |-> TRUE, files |-> top.files, stack |-> <<>>]
            ELSE OptRunListing(SubSeq(stack, 1, n - 2)
                                 \o << [stack[n - 1] EXCEPT !.files = @ \o top.files] >>, recursive)
     ELSE LET file == Head(top.todo)
              rest == [top EXCEPT !.todo = Tail(@)]
          IN IF file.IsDirectory /\ recursive
               THEN [done |-> FALSE, files |-> <<>>,
                     stack |-> SubSeq(stack, 1, n - 1) \o << rest, NewFrame(OptSubDirectoryOf(file)) >>]
             ELSE OptRunListing(SubSeq(stack, 1, n - 1)
                                  \o << [rest EXCEPT !.files = Append(@, file)] >>, recursive)

RECURSIVE OptCandidates(_, _, _, _)
\* readme.md 487-507: the files uploadFolder comes to, in the order of its
\* walk, each with the remoteDirectory of the (nested) call that finds it
OptCandidates(localDirectory, remoteDirectory, items, recursive) ==
  IF items = <<>> THEN <<>>
  ELSE LET item == Head(items)
           fullPath == PathJoin(localDirectory, item.name)
           relativePath == PathRelative(localDirectory, fullPath)
           here == IF item.isDir
                     THEN IF recursive
                            THEN OptCandidates(fullPath, PathJoin(remoteDirectory, relativePath),
                                               LocalTree[fullPath], recursive)
                          ELSE <<>>
                   ELSE << [fullPath |-> fullPath, relativePath |-> relativePath,
                            remoteDirectory |-> remoteDirectory] >>
       IN here \o OptCandidates(localDirectory, remoteDirectory, Tail(items), recursive)

\* variant: the predicate is consulted before the extension filter
OptFilterAsked_FilterFirst(asked, excluded, filter, arg) ==
  IF filter.given THEN Append(asked, arg) ELSE asked

\* readme.md 511-518 and 561-562: the calls of fileFilter made so far, after
\* one more file; a file whose extension is excluded has left the loop body
\* (`continue`, `return false`) before the line that calls the predicate
OptFilterAsked(asked, excluded, filter, arg) ==
  IF ~excluded /\ filter.given THEN Append(asked, arg) ELSE asked

RECURSIVE OptNextUpload(_, _, _, _)
\* readme.md 508-520: skips the candidates the two filters drop; the head of
\* the todo it yields is the next file to upload
OptNextUpload(todo, excludedFileTypes, filter, asked) ==
  IF todo = <<>> THEN [todo |-> <<>>, asked |-> asked]
  ELSE LET cand     == Head(todo)
           excluded == Len(excludedFileTypes) > 0
                         /\ Includes(excludedFileTypes, PathExtname(cand.relativePath))
           asked1   == OptFilterAsked(asked, excluded, filter, cand.relativePath)
       IN IF excluded
            THEN OptNextUpload(Tail(todo), excludedFileTypes, filter, asked1)
          ELSE IF OptFilterKeeps(filter, cand.relativePath) THEN [todo |-> todo, asked |-> asked1]
          ELSE OptNextUpload(Tail(todo), excludedFileTypes, filter, asked1)

RECURSIVE OptFilesToDownload(_, _, _, _)
\* readme.md 557-564
OptFilesToDownload(files, excludedFileTypes, filter, asked) ==
  IF files = <<>> THEN [keep |-> <<>>, asked |-> asked]
  ELSE LET file == Head(files)
           arg  == getRemotePathFromFileWithoutStorageZone(file) \o file.ObjectName
           excluded == Len(excludedFileTypes) > 0
                         /\ Includes(excludedFileTypes, PathExtname(file.ObjectName))
       IN IF file.IsDirectory
            THEN OptFilesToDownload(Tail(files), excludedFileTypes, filter, asked)
          ELSE IF excluded
            THEN OptFilesToDownload(Tail(files), excludedFileTypes, filter,
                                    OptFilterAsked(asked, excluded, filter, arg))
          ELSE LET asked1 == OptFilterAsked(asked, excluded, filter, arg)
                   rest   == OptFilesToDownload(Tail(files), excludedFileTypes, filter, asked1)
               IN IF OptFilterKeeps(filter, arg)
                    THEN [keep |-> << file >> \o rest.keep, asked |-> rest.asked]
                  ELSE rest

\* readme.md 521-524 with 371: the PUT of a candidate
OptUploadUrl(cand) == _getFullStorageUrl(cand.remoteDirectory, PathBasename(cand.fullPath))

\* readme.md 576-586 with 405 and 414
OptDownloadUrl(file) ==
  _getFullStorageUrl(getRemotePathFromFileWithoutStorageZone(file), file.ObjectName)

OptDownloadDestination(call, file) ==
  LET remotePath == getRemotePathFromFileWithoutStorageZone(file) IN
  IF call.recursive /\ remotePath # <<>> THEN PathJoin(call.localDirectory, remotePath)
  ELSE call.localDirectory

OptDownloadLocalPath(call, file) == PathJoin(OptDownloadDestination(call, file), file.ObjectName)

\* readme.md 573-581 with 395-408: the call holds a token and runs up to axios.get
OptEnterDownload(call) ==
  LET file == Head(call.todo) IN
  IF file.ObjectName = <<>>
    THEN [call EXCEPT !.pc = "rejected", !.holds = @ + 1, !.raised = Append(@, <<"no file name">>), !.err = Rethrow(<<"no file name">>)]
  ELSE [call EXCEPT !.pc = "getting", !.holds = @ + 1,
                    !.log = Append(@, LogEntry("GET", OptDownloadUrl(file), file))]

\* readme.md 573-574: the head of downloadFolder's loop
OptDownloadLoopHead(call, c, f, w) ==
  IF call.todo = <<>>
    THEN [call |-> [call EXCEPT !.pc = "resolved"], free |-> f, waiting |-> w]
  ELSE IF CanAcquire(f)
    THEN [call |-> OptEnterDownload(call), free |-> f - 1, waiting |-> w]
  ELSE [call |-> [call EXCEPT !.pc = "acquiring"], free |-> f, waiting |-> Append(w, c)]

\* readme.md 508-525: uploadFolder goes on to its next upload, without acquire
OptUploadLoopHead(call) ==
  LET nxt == OptNextUpload(call.todo, call.excludedFileTypes, call.fileFilter, call.asked) IN
  IF nxt.todo = <<>>
    THEN [call EXCEPT !.pc = "resolved", !.todo = <<>>, !.asked = nxt.asked]
  ELSE [call EXCEPT !.pc = "putting", !.todo = nxt.todo, !.asked = nxt.asked,
                    !.log = Append(@, LogEntry("PUT", OptUploadUrl(Head(nxt.todo)), Head(nxt.todo)))]

\* the caller of the options-record revision takes the lowest free slot
\* while no other call is outstanding
OptCallUploadFolder(c, localDirectory, remoteDirectory, recursive, excludedFileTypes, fileFilter) ==
  /\ Quiet /\ IsNextSlot(c)
  /\ free <= concurrency + MaxSurplus
  /\ LET call == [IdleCall EXCEPT !.kind = "optUpload",
                    !.remoteDirectory = remoteDirectory, !.localDirectory = localDirectory,
                    !.recursive = recursive, !.excludedFileTypes = excludedFileTypes,
                    !.fileFilter = fileFilter]
     IN IF ~LocalDirExists(localDirectory)
          THEN SetCall(c, [call EXCEPT !.pc = "rejected", !.raised = Append(@, <<"no such directory">>), !.err = Rethrow(<<"no such directory">>)])
        ELSE SetCall(c, OptUploadLoopHead(
                          [call EXCEPT !.todo = OptCandidates(localDirectory, remoteDirectory,
                                                  LocalTree[PathNormalize(localDirectory)], recursive)]))
  /\ UNCHANGED <<concurrency, retryCount, free, waiting, store, disk, tr, pm, pl>>

\* readme.md 521-532 and 536-539: the PUT settles; on success the path is
\* pushed and sema.release() called, though no acquire preceded it
OptPutResponds(c) ==
  /\ calls[c].pc = "putting" /\ calls[c].kind = "optUpload"
  /\ \E o \in Outcomes :
       LET call == calls[c]
           cand == Head(call.todo)
           url  == call.log[Len(call.log)].url
           r    == AxiosRequest(PersistentScript(o), retryCount)
       IN IF ~r.ok
            THEN /\ SetCall(c, [call EXCEPT !.pc = "rejected", !.raised = Append(@, << r.error >>), !.err = Rethrow(<< r.error >>),
                                            !.log = SetLastRes(@, "failed")])
                 /\ UNCHANGED <<free, waiting, store>>
          ELSE /\ store' = store \cup {url}
               /\ free' = FreeAfterRelease(free, waiting)
               /\ waiting' = WaitingAfterRelease(waiting)
               /\ calls' = [x \in Calls |->
                              IF x = c
                                THEN OptUploadLoopHead([call EXCEPT !.out = Append(@, cand.fullPath),
                                                          !.todo = Tail(@), !.holds = @ - 1,
                                                          !.log = SetLastRes(@, "ok")])
                              ELSE IF waiting # <<>> /\ x = Head(waiting) THEN OptEnterDownload(calls[x])
                              ELSE calls[x]]
  /\ UNCHANGED <<concurrency, retryCount, disk, tr, pm, pl>>

\* readme.md 551-555 with 314-325: downloadFolder up to the axios.get of listFiles
OptCallDownloadFolder(c, remoteDirectory, localDirectory, recursive, excludedFileTypes, fileFilter) ==
  /\ Quiet /\ IsNextSlot(c)
  /\ SetCall(c, [IdleCall EXCEPT !.pc = "listing", !.kind = "optDownload",
                   !.remoteDirectory = remoteDirectory, !.localDirectory = localDirectory,
                   !.recursive = recursive, !.excludedFileTypes = excludedFileTypes,
                   !.fileFilter = fileFilter,
                   !.stack = << NewFrame(remoteDirectory) >>,
                   !.log = << LogEntry("LIST", _getFullStorageUrl(remoteDirectory, <<>>), remoteDirectory) >>])
  /\ UNCHANGED <<concurrency, retryCount, free, waiting, store, disk, tr, pm, pl>>

\* readme.md 320-350: a listing request settles; after the last one, 557-574
OptListingResponds(c) ==
  /\ calls[c].pc = "listing" /\ calls[c].kind = "optDownload"
  /\ \E o \in Outcomes :
       LET call == calls[c]
           url  == call.log[Len(call.log)].url
           r    == AxiosRequest(PersistentScript(IF ServerKnowsDir(url) THEN o ELSE "4xx"), retryCount)
       IN IF ~r.ok
            THEN /\ SetCall(c, [call EXCEPT !.pc = "rejected", !.stack = <<>>, !.raised = Append(@, << r.error >>), !.err = Rethrow(<< r.error >>),
                                            !.log = SetLastRes(@, "failed")])
                 /\ UNCHANGED <<free, waiting>>
          ELSE LET n     == Len(call.stack)
                   stack == [call.stack EXCEPT ![n].todo = ServerListing(url)]
                   run   == OptRunListing(stack, call.recursive)
                   seen  == [call EXCEPT !.log = SetLastRes(@, "ok")]
               IN IF ~run.done
                    THEN /\ SetCall(c, [seen EXCEPT !.stack = run.stack,
                                          !.log = Append(@, LogEntry("LIST",
                                                    _getFullStorageUrl(run.stack[Len(run.stack)].remoteDirectory, <<>>),
                                                    run.stack[Len(run.stack)].remoteDirectory))])
                         /\ UNCHANGED <<free, waiting>>
                  ELSE LET sel  == OptFilesToDownload(run.files, call.excludedFileTypes, call.fileFilter, <<>>)
                           next == OptDownloadLoopHead([seen EXCEPT !.stack = <<>>, !.todo = sel.keep,
                                                                    !.asked = sel.asked],
                                                       c, free, waiting)
                       IN /\ SetCall(c, next.call)
                          /\ free' = next.free
                          /\ waiting' = next.waiting
  /\ UNCHANGED <<concurrency, retryCount, store, disk, tr, pm, pl>>

\* readme.md 405-421: the GET of downloadFile settles
OptGetResponds(c) ==
  /\ calls[c].pc = "getting" /\ calls[c].kind = "optDownload"
  /\ \E o \in Outcomes :
       LET call == calls[c]
           r    == AxiosRequest(PersistentScript(o), retryCount)
       IN IF ~r.ok
            THEN /\ SetCall(c, [call EXCEPT !.pc = "rejected", !.raised = Append(@, << r.error >>), !.err = Rethrow(<< r.error >>),
                                            !.log = SetLastRes(@, "failed")])
                 /\ UNCHANGED disk
          ELSE /\ SetCall(c, [call EXCEPT !.pc = "streaming", !.log = SetLastRes(@, "ok")])
               /\ disk' = DiskAfterOpen(disk, OptDownloadDestination(call, Head(call.todo)),
                                        OptDownloadLocalPath(call, Head(call.todo)))
  /\ UNCHANGED <<concurrency, retryCount, free, waiting, store, tr, pm, pl>>

\* readme.md 424-427, then 587-592: 'finish', push, release, next iteration
OptStreamFinishes(c) ==
  /\ calls[c].pc = "streaming" /\ calls[c].kind = "optDownload"
  /\ LET call == calls[c]
         localPath == OptDownloadLocalPath(call, Head(call.todo))
         done == [call EXCEPT !.out = Append(@, localPath), !.todo = Tail(@), !.holds = @ - 1]
         next == OptDownloadLoopHead(done, c, FreeAfterRelease(free, waiting), WaitingAfterRelease(waiting))
     IN /\ disk' = SetFile(disk, localPath, "complete")
        /\ free' = next.free
        /\ waiting' = next.waiting
        /\ calls' = [x \in Calls |->
                       IF x = c THEN next.call
                       ELSE IF waiting # <<>> /\ x = Head(waiting) THEN OptEnterDownload(calls[x])
                       ELSE calls[x]]
  /\ UNCHANGED <<concurrency, retryCount, store, tr, pm, pl>>

\* readme.md 428-431, then 596-599: 'error', reject(localPath), rethrown
OptStreamErrors(c) ==
  /\ calls[c].pc = "streaming" /\ calls[c].kind = "optDownload"
  /\ SetCall(c, [calls[c] EXCEPT !.pc = "rejected",
                                 !.raised = Append(@, OptDownloadLocalPath(calls[c], Head(calls[c].todo))), !.err = Rethrow(OptDownloadLocalPath(calls[c], Head(calls[c].todo)))])
  /\ UNCHANGED <<concurrency, retryCount, free, waiting, store, disk, tr, pm, pl>>

\* the predicates the callers pass: none, one that drops the file name 'f',
\* one that drops '/a' and 's/a'
OptUploadFilters == {NoFilter, FilterRejecting({<<"f">>})}

OptDownloadFilters == {NoFilter, FilterRejecting({<<"/", "a">>, <<"s", "/", "a">>})}

NextOptions ==
  \/ \E c \in Calls, l \in {<<"L">>, <<"N">>}, d \in UploadRemoteArgs, r \in BOOLEAN,
        x \in ExcludedArgs, ff \in OptUploadFilters : OptCallUploadFolder(c, l, d, r, x, ff)
  \/ \E c \in Calls, d \in ListDirArgs, r \in BOOLEAN, x \in ExcludedArgs, ff \in OptDownloadFilters :
       OptCallDownloadFolder(c, d, <<"R">>, r, x, ff)
  \/ \E c \in Calls : OptPutResponds(c)
  \/ \E c \in Calls : OptListingResponds(c)
  \/ \E c \in Calls : OptGetResponds(c)
  \/ \E c \in Calls : OptStreamFinishes(c)
  \/ \E c \in Calls : OptStreamErrors(c)
  \/ \E c \in Calls : Forget(c)

SpecOptions == Init /\ [][NextOptions]_vars

\* ------------------------------------------------------------------------
\* The single-file operations called on their own (src/index.mjs 155-183)
\* ------------------------------------------------------------------------
\* fse.pathExists(p): p is a directory or a file of the local tree
LocalPathExists(p) ==
  \/ PathNormalize(p) \in DOMAIN LocalTree
  \/ \E d \in DOMAIN LocalTree :
       \E i \in 1..Len(LocalTree[d]) : PathJoin(d, LocalTree[d][i].name) = PathNormalize(p)

\* variant: the request is issued before the file is looked for
UploadFileStep_PutFirst(call) ==
  [call EXCEPT !.pc = "putting",
               !.log = Append(@, LogEntry("PUT",
                         _getFullStorageUrl(call.remoteDirectory, PathBasename(call.localFilePath)),
                         call.localFilePath))]

\* lines 157-177: uploadFile up to its first await on the network
UploadFileStep(call) ==
  IF ~LocalPathExists(call.localFilePath)
    THEN [call EXCEPT !.pc = "rejected", !.raised = Append(@, <<"file does not exist">>),
                      !.err = Rethrow(<<"file does not exist">>)]
  ELSE [call EXCEPT !.pc = "putting",
                    !.log = Append(@, LogEntry("PUT",
                              _getFullStorageUrl(call.remoteDirectory, PathBasename(call.localFilePath)),
                              call.localFilePath))]

CallUploadFile(c, localFilePath, remoteDirectory) ==
  /\ Quiet /\ IsNextSlot(c)
  /\ SetCall(c, UploadFileStep([IdleCall EXCEPT !.kind = "uploadFile",
                                  !.localFilePath = localFilePath,
                                  !.remoteDirectory = remoteDirectory]))
  /\ UNCHANGED <<concurrency, retryCount, free, waiting, store, disk, tr, pm, pl>>

\* lines 177-182: the PUT settles; uploadFile returns the response or rethrows
UploadFileResponds(c) ==
  /\ calls[c].pc = "putting" /\ calls[c].kind = "uploadFile"
  /\ \E o \in Outcomes :
       LET call == calls[c]
           r    == AxiosRequest(PersistentScript(o), retryCount)
       IN IF ~r.ok
            THEN /\ SetCall(c, [call EXCEPT !.pc = "rejected", !.raised = Append(@, << r.error >>),
                                            !.err = Rethrow(<< r.error >>),
                                            !.log = SetLastRes(@, "failed")])
                 /\ UNCHANGED store
          ELSE /\ SetCall(c, [call EXCEPT !.pc = "resolved", !.log = SetLastRes(@, "ok")])
               /\ store' = store \cup {call.log[Len(call.log)].url}
  /\ UNCHANGED <<concurrency, retryCount, free, waiting, disk, tr, pm, pl>>

\* the store serves a file at url: one of the remote tree or one uploaded
ServerHasFile(url) ==
  \/ url \in store
  \/ \E d \in DOMAIN RemoteTree :
       \E i \in 1..Len(RemoteTree[d]) :
         ~RemoteTree[d][i].IsDirectory /\ DownloadUrl(RemoteTree[d][i]) = url

\* what the transport answers for a file the store may not have: 404 if not
AnswerFor(url, o) == IF ServerHasFile(url) THEN o ELSE "4xx"

\* variant: the request is issued whatever the file name
DownloadFileStep_NoCheck(call) ==
  [call EXCEPT !.pc = "getting",
               !.log = Append(@, LogEntry("GET",
                         _getFullStorageUrl(call.remoteDirectory, call.fileName), call.fileName))]

\* lines 194-203: downloadFile up to its axios.get
DownloadFileStep(call) ==
  IF call.fileName = <<>>
    THEN [call EXCEPT !.pc = "rejected", !.raised = Append(@, <<"no file name">>),
                      !.err = Rethrow(<<"no file name">>)]
  ELSE [call EXCEPT !.pc = "getting",
                    !.log = Append(@, LogEntry("GET",
                              _getFullStorageUrl(call.remoteDirectory, call.fileName), call.fileName))]

CallDownloadFile(c, remoteDirectory, fileName, localDirectory) ==
  /\ Quiet /\ IsNextSlot(c)
  /\ SetCall(c, DownloadFileStep([IdleCall EXCEPT !.kind = "downloadFile",
                                    !.remoteDirectory = remoteDirectory, !.fileName = fileName,
                                    !.localDirectory = localDirectory]))
  /\ UNCHANGED <<concurrency, retryCount, free, waiting, store, disk, tr, pm, pl>>

\* line 210
FileLocalPath(call) == PathJoin(call.localDirectory, call.fileName)

\* lines 203-216: the GET settles; on success the directory is made, the file
\* opened and the body piped into it
DownloadFileResponds(c) ==
  /\ calls[c].pc = "getting" /\ calls[c].kind = "downloadFile"
  /\ \E o \in Outcomes :
       LET call == calls[c]
           r    == AxiosRequest(PersistentScript(AnswerFor(call.log[Len(call.log)].url, o)), retryCount)
       IN IF ~r.ok
            THEN /\ SetCall(c, [call EXCEPT !.pc = "rejected", !.raised = Append(@, << r.error >>),
                                            !.err = Rethrow(<< r.error >>),
                                            !.log = SetLastRes(@, "failed")])
                 /\ UNCHANGED disk
          ELSE /\ SetCall(c, [call EXCEPT !.pc = "streaming", !.log = SetLastRes(@, "ok")])
               /\ disk' = DiskAfterOpen(disk, call.localDirectory, FileLocalPath(call))
  /\ UNCHANGED <<concurrency, retryCount, free, waiting, store, tr, pm, pl>>

\* lines 220-223: 'finish' resolves the promise with localPath
SettledOnFinish(call, localPath) == [call EXCEPT !.pc = "resolved", !.out = << localPath >>]

\* variant: the file is removed when the stream fails
DiskAfterStreamError_Cleaned(d, localPath) == [x \in (DOMAIN d) \ {localPath} |-> d[x]]

\* lines 224-227: the 'error' handler logs and rejects; the file stays as it is
DiskAfterStreamError(d, localPath) == d

DownloadFileFinishes(c) ==
  /\ calls[c].pc = "streaming" /\ calls[c].kind = "downloadFile"
  /\ SetCall(c, SettledOnFinish(calls[c], FileLocalPath(calls[c])))
  /\ disk' = SetFile(disk, FileLocalPath(calls[c]), "complete")
  /\ UNCHANGED <<concurrency, retryCount, free, waiting, store, tr, pm, pl>>

\* lines 224-227: reject(localPath); the rejection does not pass the catch
\* block of downloadFile, the promise is returned without await
DownloadFileErrors(c) ==
  /\ calls[c].pc = "streaming" /\ calls[c].kind = "downloadFile"
  /\ SetCall(c, [calls[c] EXCEPT !.pc = "rejected",
                                 !.raised = Append(@, FileLocalPath(calls[c])),
                                 !.err = FileLocalPath(calls[c])])
  /\ disk' = DiskAfterStreamError(disk, FileLocalPath(calls[c]))
  /\ UNCHANGED <<concurrency, retryCount, free, waiting, store, tr, pm, pl>>

\* variant: the request is issued whatever the file name
DeleteStep_NoCheck(call) ==
  [call EXCEPT !.pc = "deleting",
               !.log = Append(@, LogEntry("DELETE",
                         _getFullStorageUrl(call.remoteDirectory, call.fileName), call.fileName))]

\* lines 243-249: delete up to its axios.delete
DeleteStep(call) ==
  IF call.fileName = <<>>
    THEN [call EXCEPT !.pc = "rejected", !.raised = Append(@, <<"no file name">>),
                      !.err = Rethrow(<<"no file name">>)]
  ELSE [call EXCEPT !.pc = "deleting",
                    !.log = Append(@, LogEntry("DELETE",
                              _getFullStorageUrl(call.remoteDirectory, call.fileName), call.fileName))]

CallDelete(c, remoteDirectory, fileName) ==
  /\ Quiet /\ IsNextSlot(c)
  /\ SetCall(c, DeleteStep([IdleCall EXCEPT !.kind = "delete",
                              !.remoteDirectory = remoteDirectory, !.fileName = fileName]))
  /\ UNCHANGED <<concurrency, retryCount, free, waiting, store, disk, tr, pm, pl>>

\* lines 249-261: the DELETE settles; delete returns the url or rethrows
DeleteResponds(c) ==
  /\ calls[c].pc = "deleting" /\ calls[c].kind = "delete"
  /\ \E o \in Outcomes :
       LET call == calls[c]
           url  == call.log[Len(call.log)].url
           r    == AxiosRequest(PersistentScript(AnswerFor(url, o)), retryCount)
       IN IF ~r.ok
            THEN /\ SetCall(c, [call EXCEPT !.pc = "rejected", !.raised = Append(@, << r.error >>),
                                            !.err = Rethrow(<< r.error >>),
                                            !.log = SetLastRes(@, "failed")])
                 /\ UNCHANGED store
          ELSE /\ SetCall(c, [call EXCEPT !.pc = "resolved", !.out = << url >>,
                                          !.log = SetLastRes(@, "ok")])
               /\ store' = store \ {url}
  /\ UNCHANGED <<concurrency, retryCount, free, waiting, disk, tr, pm, pl>>

\* the file names callers pass to downloadFile and delete: none, one of the
\* remote tree, one that is in the store only after an upload
FileNameArgs == {<<>>, <<"a">>, <<"f">>}

DeleteNameArgs == {<<>>, <<"f">>}

\* the local paths callers pass: files of the tree and paths that are not there
LocalFileArgs ==
  {<<"L", "/", "f">>, <<"L", "/", "a", "/", "f">>, <<"L", "/", "g", ".", "x">>,
   <<"L", "/", "q">>, <<"N", "/", "f">>}

RemoteDirArgs == {SLASH, <<"u">>, <<"s">>}

NextFile ==
  \/ \E c \in Calls, p \in LocalFileArgs, d \in RemoteDirArgs : CallUploadFile(c, p, d)
  \/ \E c \in Calls : UploadFileResponds(c)
  \/ \E c \in Calls, d \in RemoteDirArgs, n \in FileNameArgs : CallDownloadFile(c, d, n, <<"R">>)
  \/ \E c \in Calls : DownloadFileResponds(c)
  \/ \E c \in Calls : DownloadFileFinishes(c)
  \/ \E c \in Calls : DownloadFileErrors(c)
  \/ \E c \in Calls : ResponseStreamFails(c)
  \/ \E c \in Calls, d \in RemoteDirArgs, n \in DeleteNameArgs : CallDelete(c, d, n)
  \/ \E c \in Calls : DeleteResponds(c)
  \/ \E c \in Calls : Forget(c)

SpecFile == Init /\ [][NextFile]_vars

\* ------------------------------------------------------------------------
\* What the store and the arguments say, for stating the properties
\* ------------------------------------------------------------------------
\* the directory key of a remoteDirectory argument
DirKey(remoteDirectory) == IF remoteDirectory = SLASH THEN <<>> ELSE remoteDirectory

IsUnder(d, key) == key = <<>> \/ d = key \/ StartsWith(d, key \o SLASH)

\* the file entries the store holds at any depth under directory `key`
RemoteFilesUnder(key) ==
  {RemoteTree[d][i] : <<d, i>> \in {<<d, i>> \in (DOMAIN RemoteTree) \X (1..3) :
                                      /\ i <= Len(RemoteTree[d])
                                      /\ IsUnder(d, key)
                                      /\ ~RemoteTree[d][i].IsDirectory}}

Range(seq) == {seq[i] : i \in 1..Len(seq)}

LogOf(c, method) == LET Is(e) == e.method = method IN SelectSeq(calls[c].log, Is)

InFlight == {c \in Calls : calls[c].pc \in {"putting", "getting", "streaming"}}

\* the local path of entry e when its directory is taken relative to the
\* queried root: localDirectory / (directory of e below the root) / name
LocalPathRelativeToRoot(localDirectory, key, e) ==
  LET dirOfE == SliceFrom(e.Path, Len(storageZoneName) + 2)
      below  == IF key = <<>> THEN dirOfE ELSE SliceFrom(dirOfE, Len(key) + 1)
  IN localDirectory \o SLASH \o below \o e.ObjectName

\* the directory part of a relative file name ('' for a top-level file)
SubDirOf(fileName) == LET g == Segments(fileName) IN JoinSegs(SubSeq(g, 1, Len(g) - 1))

\* ------------------------------------------------------------------------
\* Properties
\* ------------------------------------------------------------------------
\* C1: a bulk operation that has rejected holds no gate token: every acquire
\* it made was followed by a release, also on the path where a transfer fails.
C1_ReleasedOnFailure ==
  \A c \in Calls : calls[c].pc = "rejected" => calls[c].holds = 0

\* C2: the gate's number of free tokens stays within 0..concurrency, whatever
\* calls overlap and however they end.
C2_GateWithinCapacity == free \in 0..concurrency

\* the gate is exhausted with a caller queued, one call has rejected while
\* holding a token and another has released after every transfer
C2_Witness ==
  /\ free = 0
  /\ \E c \in Calls : calls[c].pc = "rejected" /\ calls[c].holds = 1
  /\ \E c \in Calls : calls[c].pc = "resolved" /\ Len(calls[c].out) = 2

\* C3: the transfers (PUT, or GET with its body stream) in flight at one time
\* never number more than `concurrency`; with concurrency 1 at most one.
C3_TransfersBounded == Cardinality(InFlight) <= concurrency

\* concurrency 1, one transfer in flight and another call queued behind it
C3_Witness == concurrency = 1 /\ Cardinality(InFlight) = 1 /\ waiting # <<>>

\* C4: an uploadFolder that rejected issued no DELETE, and every object whose
\* PUT had succeeded is still in the store.
C4_NoRollback ==
  \A c \in Calls :
    (calls[c].kind = "upload" /\ calls[c].pc = "rejected") =>
      /\ LogOf(c, "DELETE") = <<>>
      /\ \A i \in 1..Len(calls[c].log) :
           (calls[c].log[i].method = "PUT" /\ calls[c].log[i].res = "ok") => calls[c].log[i].url \in store

\* an uploadFolder rejected by a failed PUT after an earlier PUT succeeded
C4_Witness ==
  \E c \in Calls :
    /\ calls[c].kind = "upload" /\ calls[c].pc = "rejected"
    /\ Len(calls[c].out) >= 1
    /\ calls[c].log[Len(calls[c].log)].res = "failed"

\* C5: a recursive listFiles that resolved returns exactly the files at any
\* depth under the directory, each once, and no directory entry.
C5_RecursiveListing ==
  \A c \in Calls :
    (calls[c].kind = "list" /\ calls[c].recursive /\ calls[c].pc = "resolved") =>
      /\ Range(calls[c].out) = RemoteFilesUnder(DirKey(calls[c].remoteDirectory))
      /\ Len(calls[c].out) = Cardinality(RemoteFilesUnder(DirKey(calls[c].remoteDirectory)))
      /\ \A i \in 1..Len(calls[c].out) : ~calls[c].out[i].IsDirectory

\* the recursive listing of the zone root resolved with the three files of
\* three directories
C5_Witness ==
  \E c \in Calls :
    /\ calls[c].kind = "list" /\ calls[c].recursive /\ calls[c].pc = "resolved"
    /\ calls[c].remoteDirectory = SLASH
    /\ Len(calls[c].out) = 3 /\ Len(calls[c].log) = 3

\* C6: a recursive downloadFolder(Q, R) writes every file it has downloaded to
\* R joined with the file's path relative to Q.
C6_DestinationRelativeToQueriedRoot ==
  \A c \in Calls :
    (calls[c].kind = "download" /\ calls[c].recursive) =>
      \A i \in 1..Len(calls[c].out) :
        calls[c].out[i] = LocalPathRelativeToRoot(calls[c].localDirectory,
                                                  DirKey(calls[c].remoteDirectory),
                                                  LogOf(c, "GET")[i].item)

\* C7: a recursive uploadFolder PUTs the file at sub/f to
\* urlFor(join(remoteDirectory, sub), f), and two different files never to the
\* same url.
C7_UploadKeepsSubdirectory ==
  \A c \in Calls :
    (calls[c].kind = "upload" /\ calls[c].recursive) =>
      LET puts == LogOf(c, "PUT") IN
      /\ \A i \in 1..Len(puts) :
           puts[i].url = _getFullStorageUrl(PathJoin(calls[c].remoteDirectory, SubDirOf(puts[i].item)),
                                            PathBasename(puts[i].item))
      /\ \A i, j \in 1..Len(puts) : puts[i].item # puts[j].item => puts[i].url # puts[j].url

\* C8: a non-recursive listFiles that resolved issued exactly one listing
\* request and returns the store's entries of the directory in the store's
\* order, directory entries included.
C8_FlatListing ==
  \A c \in Calls :
    (calls[c].kind = "list" /\ ~calls[c].recursive /\ calls[c].pc = "resolved") =>
      /\ calls[c].out = RemoteTree[DirKey(calls[c].remoteDirectory)]
      /\ Len(calls[c].log) = 1 /\ calls[c].log[1].method = "LIST"

\* a non-recursive listing resolved with a directory entry in its result
C8_Witness ==
  \E c \in Calls :
    /\ calls[c].kind = "list" /\ ~calls[c].recursive /\ calls[c].pc = "resolved"
    /\ \E i \in 1..Len(calls[c].out) : calls[c].out[i].IsDirectory

\* C9: a call one of whose listing requests failed after retries has rejected
\* and yields no entries.
C9_ListingAllOrNothing ==
  \A c \in Calls :
    (\E i \in 1..Len(calls[c].log) : calls[c].log[i].method = "LIST" /\ calls[c].log[i].res = "failed") =>
      calls[c].pc = "rejected" /\ calls[c].out = <<>>

\* a listFiles rejected by a failed sub-listing after the listing above it had
\* succeeded
C9_Witness ==
  \E c \in Calls :
    /\ calls[c].kind = "list" /\ calls[c].pc = "rejected"
    /\ Len(calls[c].log) >= 2 /\ calls[c].log[1].res = "ok"

\* the script fails its first k attempts, each in one of the ways `kinds`,
\* and succeeds on attempt k + 1
FailsThenSucceeds(script, k, kinds) ==
  /\ k + 1 <= Len(script)
  /\ \A i \in 1..k : script[i] \in kinds
  /\ script[k + 1] = "ok"

C11_AttemptsBounded ==
  tr.status \in {"ok", "failed"} =>
    /\ tr.attempts \in 1..(retryCount + 1)
    /\ tr.status = "failed" => tr.error = tr.script[tr.attempts]
    /\ (\A i \in 1..(retryCount + 1) : tr.script[i] \in {"net", "5xx"}) =>
         /\ tr.status = "failed" /\ tr.attempts = retryCount + 1
         /\ tr.error = tr.script[retryCount + 1]

\* every attempt failed, the last one differently from the first, and the
\* call rejected with the last failure
C11_Witness ==
  /\ retryCount >= 1 /\ tr.status = "failed" /\ tr.attempts = retryCount + 1
  /\ tr.script[1] # tr.script[retryCount + 1] /\ tr.error = tr.script[retryCount + 1]


\* the transfers of call c in flight: the loops at 324-340 and 379-396 await
\* each transfer before the next acquire, so a call has one at most
TransfersInFlightOf(c) == IF c \in InFlight THEN 1 ELSE 0

\* C12: with concurrency >= 2, a bulk call runs its transfers in parallel up
\* to the gate's capacity: while one of its transfers is in flight, another of
\* its files is left to transfer and a token is free, a second transfer of the
\* call is in flight.
C12_TransfersRunInParallel ==
  \A c \in Calls :
    (/\ concurrency >= 2 /\ free > 0
     /\ calls[c].kind \in {"upload", "download"}
     /\ c \in InFlight /\ Len(calls[c].todo) >= 2) =>
      TransfersInFlightOf(c) >= 2


RECURSIVE RemoteWalk(_, _)
\* the files of the store under directory `key` in depth-first order, each
\* directory in the store's order
RemoteWalk(key, entries) ==
  IF entries = <<>> THEN <<>>
  ELSE LET e == Head(entries)
           sub == IF key = <<>> THEN e.ObjectName ELSE key \o SLASH \o e.ObjectName
       IN (IF e.IsDirectory THEN RemoteWalk(sub, RemoteTree[sub]) ELSE << e >>)
            \o RemoteWalk(key, Tail(entries))

IsFileEntry(e) == ~e.IsDirectory

\* the files a bulk call enumerates before it filters: for a download the
\* store's files under the queried directory (at any depth when recursive,
\* else its direct children), for an upload what _getLocalFiles finds
EnumeratedBy(call) ==
  IF call.kind = "download"
    THEN IF call.recursive
           THEN RemoteWalk(DirKey(call.remoteDirectory), RemoteTree[DirKey(call.remoteDirectory)])
         ELSE SelectSeq(RemoteTree[DirKey(call.remoteDirectory)], IsFileEntry)
  ELSE _getLocalFiles(call.localDirectory, call.localDirectory, call.recursive)

\* the name whose extension decides, of an item of either kind of call
NameOfItem(call, item) == IF call.kind = "download" THEN item.ObjectName ELSE item

IsExcludedBy(call, item) ==
  \E i \in 1..Len(call.excludedFileTypes) :
    call.excludedFileTypes[i] = PathExtname(NameOfItem(call, item))

\* the transfers (PUT or GET) call c has issued, in order
TransfersOf(c) == LET Is(e) == e.method \in {"PUT", "GET"} IN SelectSeq(calls[c].log, Is)

IsBulk(c) == calls[c].kind \in {"upload", "download"} /\ calls[c].err # <<"no such directory">>

\* C13: a bulk call never transfers a file whose extension is excluded, and
\* one that resolved has transferred every other enumerated file exactly once.
C13_ExtensionFilter ==
  \A c \in Calls :
    IsBulk(c) =>
      LET ts == TransfersOf(c) IN
      /\ \A i \in 1..Len(ts) : ~IsExcludedBy(calls[c], ts[i].item)
      /\ calls[c].pc = "resolved" =>
           /\ {ts[i].item : i \in 1..Len(ts)}
                = {e \in Range(EnumeratedBy(calls[c])) : ~IsExcludedBy(calls[c], e)}
           /\ \A i, j \in 1..Len(ts) : ts[i].item = ts[j].item => i = j

\* a call that excludes '.x' resolved after it enumerated a '.x' file and
\* transferred another file
C13_Witness ==
  \E c \in Calls :
    /\ IsBulk(c) /\ calls[c].pc = "resolved" /\ calls[c].excludedFileTypes # <<>>
    /\ Len(TransfersOf(c)) >= 1
    /\ \E e \in Range(EnumeratedBy(calls[c])) : IsExcludedBy(calls[c], e)


\* the files a bulk call of the options-record revision comes to before it
\* filters
OptEnumerated(call) ==
  IF call.kind = "optDownload"
    THEN IF call.recursive
           THEN RemoteWalk(DirKey(call.remoteDirectory), RemoteTree[DirKey(call.remoteDirectory)])
         ELSE SelectSeq(RemoteTree[DirKey(call.remoteDirectory)], IsFileEntry)
  ELSE OptCandidates(call.localDirectory, call.remoteDirectory,
                     LocalTree[PathNormalize(call.localDirectory)], call.recursive)

OptNameOfItem(call, item) == IF call.kind = "optDownload" THEN item.ObjectName ELSE item.relativePath

OptIsExcludedBy(call, item) ==
  \E i \in 1..Len(call.excludedFileTypes) :
    call.excludedFileTypes[i] = PathExtname(OptNameOfItem(call, item))

\* the argument the predicate is to be given for an item: the entry's
\* directory without the zone prefix ('/' for the zone root) followed by its
\* name for a download, the path relative to the walked directory for an upload
ExpectedFilterArg(call, item) ==
  IF call.kind = "optDownload"
    THEN LET d == SliceFrom(item.Path, Len(storageZoneName) + 2)
         IN (IF d = <<>> THEN SLASH ELSE d) \o item.ObjectName
  ELSE item.relativePath

IsOptBulk(c) == calls[c].kind \in {"optUpload", "optDownload"} /\ calls[c].err # <<"no such directory">>

\* C14: in the options-record revision a bulk call never transfers a file its
\* fileFilter answers false for; without a fileFilter a call that resolved
\* has transferred every enumerated file whose extension is not excluded;
\* and downloadFolder asks the predicate about the entry's path without the
\* zone prefix followed by its ObjectName, once per file that passed the
\* extension filter.
C14_FileFilter ==
  \A c \in Calls :
    IsOptBulk(c) =>
      LET call == calls[c]
          ts   == TransfersOf(c)
          IsCandidate(e) == ~OptIsExcludedBy(call, e)
          cands == SelectSeq(OptEnumerated(call), IsCandidate)
      IN /\ call.fileFilter.given =>
              \A i \in 1..Len(ts) : FileFilterResult(call.fileFilter, ExpectedFilterArg(call, ts[i].item))
         /\ ~call.fileFilter.given =>
              /\ call.asked = <<>>
              /\ call.pc = "resolved" => [i \in 1..Len(ts) |-> ts[i].item] = cands
         /\ (call.kind = "optDownload" /\ call.fileFilter.given /\ call.pc = "resolved") =>
              call.asked = [i \in 1..Len(cands) |-> ExpectedFilterArg(call, cands[i])]
         /\ \A i \in 1..Len(call.asked) :
              \E e \in Range(cands) : call.asked[i] = ExpectedFilterArg(call, e)

\* a downloadFolder of the options-record revision resolved after its
\* fileFilter answered false for one file and true for another, which it
\* downloaded
C14_Witness ==
  \E c \in Calls :
    /\ calls[c].kind = "optDownload" /\ calls[c].pc = "resolved"
    /\ calls[c].fileFilter.given
    /\ \E i \in 1..Len(calls[c].asked) : ~FileFilterResult(calls[c].fileFilter, calls[c].asked[i])
    /\ Len(calls[c].out) >= 1
    /\ Len(TransfersOf(c)) < Len(calls[c].asked)


\* the names of the files that lie directly in local directory dir
DirectChildFiles(dir) ==
  {e.name : e \in {x \in Range(LocalTree[PathNormalize(dir)]) : ~x.isDir}}

\* C15: an uploadFolder with recursive = false sends only files that are
\* direct children of localDirectory, each from localDirectory/name, and a
\* call that resolved without an extension filter has sent all of them.
C15_NonRecursiveUpload ==
  \A c \in Calls :
    (calls[c].kind = "upload" /\ ~calls[c].recursive /\ IsBulk(c)) =>
      LET puts == LogOf(c, "PUT") IN
      /\ \A i \in 1..Len(puts) :
           /\ puts[i].item \in DirectChildFiles(calls[c].localDirectory)
           /\ UploadFilePath(calls[c], puts[i].item)
                \in {PathJoin(calls[c].localDirectory, n) : n \in DirectChildFiles(calls[c].localDirectory)}
      /\ (calls[c].pc = "resolved" /\ calls[c].excludedFileTypes = <<>>) =>
           {puts[i].item : i \in 1..Len(puts)} = DirectChildFiles(calls[c].localDirectory)

\* a non-recursive uploadFolder of a directory that has a subdirectory with
\* files in it resolved after uploading the two direct children
C15_Witness ==
  \E c \in Calls :
    /\ calls[c].kind = "upload" /\ ~calls[c].recursive /\ calls[c].pc = "resolved"
    /\ Len(calls[c].out) = 2
    /\ \E e \in Range(LocalTree[PathNormalize(calls[c].localDirectory)]) :
         e.isDir /\ \E x \in Range(LocalTree[PathJoin(calls[c].localDirectory, e.name)]) : ~x.isDir


\* where a file of the store belongs under local root R when the tree is
\* kept: R, the entry's directories below the zone, its name
MirroredPath(localDirectory, file) ==
  localDirectory \o SLASH \o SliceFrom(file.Path, Len(storageZoneName) + 2) \o file.ObjectName

IsAnswered(entry) == entry.res = "ok"

\* C16: a recursive downloadFolder from the zone root writes each remote file
\* /dirs/name to R/dirs/name; a non-recursive one issues one listing only,
\* downloads no directory entry and no entry of a subdirectory, and writes
\* every file to R/ObjectName.
C16_DownloadStructure ==
  \A c \in Calls :
    calls[c].kind = "download" =>
      LET call == calls[c]
          gets == LogOf(c, "GET")
          done == SelectSeq(gets, IsAnswered)
      IN /\ (call.recursive /\ call.remoteDirectory = SLASH) =>
              /\ \A i \in 1..Len(call.out) :
                   /\ call.out[i] = MirroredPath(call.localDirectory, gets[i].item)
                   /\ call.out[i] \in DOMAIN disk /\ disk[call.out[i]] = "complete"
              /\ \A i \in 1..Len(done) : MirroredPath(call.localDirectory, done[i].item) \in DOMAIN disk
              /\ (call.pc = "resolved" /\ call.excludedFileTypes = <<>>) =>
                   {g.item : g \in Range(gets)} = RemoteFilesUnder(<<>>)
         /\ ~call.recursive =>
              /\ Len(LogOf(c, "LIST")) = 1
              /\ \A i \in 1..Len(gets) :
                   /\ ~gets[i].item.IsDirectory
                   /\ gets[i].item \in Range(RemoteTree[DirKey(call.remoteDirectory)])
              /\ \A i \in 1..Len(call.out) :
                   /\ call.out[i] = call.localDirectory \o SLASH \o gets[i].item.ObjectName
                   /\ call.out[i] \in DOMAIN disk /\ disk[call.out[i]] = "complete"
              /\ \A i \in 1..Len(done) :
                   call.localDirectory \o SLASH \o done[i].item.ObjectName \in DOMAIN disk

\* after a recursive download of the zone root has put s/t/d.x at R/s/t/d.x,
\* a non-recursive download of directory s, whose listing holds a directory
\* entry, resolved with the one file written to R/a
C16_Witness ==
  \E c \in Calls :
    /\ calls[c].kind = "download" /\ ~calls[c].recursive /\ calls[c].pc = "resolved"
    /\ calls[c].remoteDirectory = <<"s">>
    /\ calls[c].out = << <<"R", "/", "a">> >>
    /\ <<"R", "/", "s", "/", "t", "/", "d", ".", "x">> \in DOMAIN disk
    /\ disk[<<"R", "/", "s", "/", "t", "/", "d", ".", "x">>] = "complete"


\* the path a bulk call returns for a transferred item: the name relative to
\* localDirectory for an upload, the path of the written file for a download
ReturnedPathOf(call, item) ==
  IF call.kind = "upload" THEN item ELSE DownloadLocalPath(call, item)

\* the enumerated files that pass the extension filter, in discovery order
FilteredBy(call) ==
  LET Passes(e) == ~IsExcludedBy(call, e) IN SelectSeq(EnumeratedBy(call), Passes)

\* C17: the paths a bulk call has collected are those of its first transfers
\* in filtered discovery order, one per transfer; when it resolves it has made
\* one transfer per filtered file, all answered, and returns one path for each.
C17_ReturnedPaths ==
  \A c \in Calls :
    IsBulk(c) =>
      LET call == calls[c]
          ts   == TransfersOf(c)
          want == FilteredBy(call)
      IN /\ Len(call.out) <= Len(ts) /\ Len(ts) <= Len(want)
         /\ \A i \in 1..Len(ts) : ts[i].item = want[i]
         /\ \A i \in 1..Len(call.out) :
              /\ call.out[i] = ReturnedPathOf(call, want[i])
              /\ ts[i].res = "ok"
         /\ call.pc = "resolved" =>
              /\ Len(call.out) = Len(ts) /\ Len(ts) = Len(want)
              /\ \A i, j \in 1..Len(call.out) : call.out[i] = call.out[j] => i = j

\* a bulk call resolved returning two paths after the extension filter had
\* dropped an enumerated file
C17_Witness ==
  \E c \in Calls :
    /\ IsBulk(c) /\ calls[c].pc = "resolved"
    /\ Len(calls[c].out) = 2 /\ calls[c].out[1] # calls[c].out[2]
    /\ Len(FilteredBy(calls[c])) < Len(EnumeratedBy(calls[c]))


\* the requests call c has started that have not been answered
PendingOf(c) == {i \in 1..Len(calls[c].log) : calls[c].log[i].res = "pending"}

\* the local files call c has opened and not finished writing
UnfinishedOf(c) ==
  {i \in 1..Len(calls[c].log) :
     /\ calls[c].log[i].method = "GET" /\ calls[c].log[i].res = "ok"
     /\ LET p == DownloadLocalPath(calls[c], calls[c].log[i].item)
        IN p \notin DOMAIN disk \/ disk[p] # "complete"}

\* C18: when listFiles, uploadFolder or downloadFolder has resolved, every
\* listing, sub-listing and transfer it started has been answered and every
\* file it opened has been written to its end.
C18_NothingInFlightOnReturn ==
  \A c \in Calls :
    (calls[c].kind \in {"list", "upload", "download"} /\ calls[c].pc = "resolved") =>
      /\ PendingOf(c) = {}
      /\ calls[c].stack = <<>>
      /\ calls[c].kind = "download" => UnfinishedOf(c) = {}

\* a recursive downloadFolder resolved after three listings and two downloads
C18_Witness ==
  \E c \in Calls :
    /\ calls[c].kind = "download" /\ calls[c].recursive /\ calls[c].pc = "resolved"
    /\ Len(LogOf(c, "LIST")) = 3
    /\ Len(LogOf(c, "GET")) >= 2


\* the requests of call c before its last one
EarlierRequestsOf(c) == SubSeq(calls[c].log, 1, Len(calls[c].log) - 1)

C20_NoPutForMissingFile ==
  \A c \in Calls :
    (calls[c].kind = "uploadFile" /\ ~LocalPathExists(calls[c].localFilePath)) =>
      /\ calls[c].pc = "rejected"
      /\ calls[c].log = <<>>
      /\ calls[c].err = <<"file does not exist">>
      /\ _getFullStorageUrl(<<"u">>, <<"q">>) \notin store

\* after an upload of an existing file has reached the store, an uploadFile
\* of a path that is not there rejected
C20_Witness ==
  \E c \in Calls :
    /\ calls[c].kind = "uploadFile" /\ calls[c].pc = "rejected"
    /\ calls[c].localFilePath = <<"L", "/", "q">>
    /\ calls[c].log = <<>>
    /\ store # {}


\* the url of file `name` in the plainly written remote directory `dir`
\* ('/' or one without slashes at its ends)
UrlOfFile(dir, name) ==
  baseURL \o storageZoneName \o SLASH \o (IF dir = SLASH THEN <<>> ELSE dir \o SLASH) \o name

\* call c is a downloadFile or a delete that was given no file name
IsNamelessCall(call) == call.kind \in {"downloadFile", "delete"} /\ call.fileName = <<>>

NamelessRejected ==
  \A c \in Calls :
    IsNamelessCall(calls[c]) =>
      /\ calls[c].pc = "rejected"
      /\ calls[c].log = <<>>
      /\ calls[c].err = <<"no file name">>

DeleteReturnsUrl ==
  \A c \in Calls :
    (calls[c].kind = "delete" /\ calls[c].pc = "resolved") =>
      /\ calls[c].out = << UrlOfFile(calls[c].remoteDirectory, calls[c].fileName) >>
      /\ calls[c].log[1].url = UrlOfFile(calls[c].remoteDirectory, calls[c].fileName)
      /\ calls[c].log[1].res = "ok"

NamelessStepTouchesNothing ==
  \A c \in Calls :
    (calls[c].pc = "idle" /\ IsNamelessCall(calls'[c])) => (disk' = disk /\ store' = store)

\* C21: a downloadFile or delete without a file name has rejected with no
\* request made, and the step that rejects it leaves the disk and the store
\* as they were; a delete that resolved returns the url of
\* remoteDirectory/fileName, the url its DELETE was sent to.
C21_NamelessRejectedDeleteReturnsUrl ==
  /\ [](NamelessRejected /\ DeleteReturnsUrl)
  /\ [][NamelessStepTouchesNothing]_vars

\* after an upload has reached the store, a downloadFile without a file name
\* rejected, the disk still empty
C21_Witness ==
  \E c \in Calls :
    /\ calls[c].kind = "downloadFile" /\ calls[c].fileName = <<>> /\ calls[c].pc = "rejected"
    /\ store # {}
    /\ disk = <<>>


\* call is an uploadFolder of a local directory that does not exist
IsUploadOfMissingDir(call) == call.kind = "upload" /\ ~LocalDirExists(call.localDirectory)

MissingDirRejected ==
  \A c \in Calls :
    IsUploadOfMissingDir(calls[c]) =>
      /\ calls[c].pc = "rejected"
      /\ calls[c].err = <<"no such directory">>
      /\ calls[c].dirsRead = <<>>
      /\ calls[c].holds = 0
      /\ \A i \in 1..Len(waiting) : waiting[i] # c
      /\ calls[c].log = <<>>

MissingDirStepTouchesNothing ==
  \A c \in Calls :
    (calls[c].pc = "idle" /\ IsUploadOfMissingDir(calls'[c])) =>
      (free' = free /\ waiting' = waiting /\ store' = store)

\* C22: an uploadFolder of a local directory that does not exist has rejected
\* having read no directory, taken no gate token and issued no PUT, and the
\* step that rejects it leaves the gate and the store as they were.
C22_MissingDirectoryFailsFast ==
  /\ []MissingDirRejected
  /\ [][MissingDirStepTouchesNothing]_vars

\* an uploadFolder of a directory that exists has read it and uploaded, then
\* one of a directory that does not exist rejected
C22_Witness ==
  \E c \in Calls :
    /\ IsUploadOfMissingDir(calls[c]) /\ calls[c].pc = "rejected"
    /\ store # {}


\* where downloadFile is to write: localDirectory/fileName, both plainly written
ExpectedLocalPath(call) == call.localDirectory \o SLASH \o call.fileName

IsOnDisk(path, state) == path \in DOMAIN disk /\ disk[path] = state

DownloadFileSettles ==
  \A c \in Calls :
    (calls[c].kind = "downloadFile" /\ calls[c].fileName # <<>>) =>
      LET call == calls[c] IN
      /\ call.pc = "resolved" =>
           /\ call.out = << ExpectedLocalPath(call) >>
           /\ IsOnDisk(ExpectedLocalPath(call), "complete")
      /\ call.pc \in {"getting", "streaming"} => call.out = <<>>
      /\ call.pc = "streaming" => IsOnDisk(ExpectedLocalPath(call), "partial")
      /\ (call.pc = "rejected" /\ call.log[1].res = "ok") =>
           /\ call.err = ExpectedLocalPath(call)
           /\ IsOnDisk(ExpectedLocalPath(call), "partial")

StreamErrorLeavesDisk ==
  \A c \in Calls :
    (calls[c].kind = "downloadFile" /\ calls[c].pc = "streaming" /\ calls'[c].pc = "rejected") =>
      disk' = disk

\* C23: a downloadFile with a file name resolves with localDirectory/fileName
\* and only once the file is written to its end; while the stream runs the
\* call is unsettled; a stream error rejects it and leaves the disk as it
\* was, the partly written file included.
C23_DownloadFileSettlesWithStream ==
  /\ []DownloadFileSettles
  /\ [][StreamErrorLeavesDisk]_vars

\* a downloadFile of a file the store serves rejected on a write-stream
\* error; the file it had opened is on disk, unfinished
C23_Witness ==
  \E c \in Calls :
    /\ calls[c].kind = "downloadFile" /\ calls[c].pc = "rejected"
    /\ calls[c].err = <<"R", "/", "a">>
    /\ IsOnDisk(<<"R", "/", "a">>, "partial")


\* s without one leading '/' and then without one trailing '/', if it has them
StripOne(s) ==
  LET a == IF s # <<>> /\ Head(s) = "/" THEN Tail(s) ELSE s
  IN IF a # <<>> /\ a[Len(a)] = "/" THEN SubSeq(a, 1, Len(a) - 1) ELSE a

Returned(op) == pm.status = "returned" /\ pm.op = op

\* C24: _getFilePath takes directory '' and '/' for the root and yields the
\* file name without one leading and one trailing '/'; of any other directory
\* and of the file name it strips one leading and one trailing '/' and no
\* more, so ('', 'a') gives 'a' and ('/a/', '/z/') gives 'a/z'; and
\* _getFullStorageUrl('/', 'a') is baseURL + zone + '/a'.
C24_JoinRemoteExamples ==
  /\ Returned("_getFilePath") =>
       /\ pm.directory \in {<<>>, SLASH} => pm.result = StripOne(pm.fileName)
       /\ pm.directory \notin {<<>>, SLASH} =>
            /\ StartsWith(pm.result, StripOne(pm.directory) \o SLASH)
            /\ EndsWith(pm.result, StripOne(pm.fileName))
            /\ Len(pm.result) = Len(StripOne(pm.directory)) + 1 + Len(StripOne(pm.fileName))
       /\ (pm.directory = <<>> /\ pm.fileName = <<"a">>) => pm.result = <<"a">>
       /\ (pm.directory = <<"/", "a", "/">> /\ pm.fileName = <<"/", "z", "/">>) =>
            pm.result = <<"a", "/", "z">>
  /\ Returned("_getFullStorageUrl") =>
       /\ (pm.directory = SLASH /\ pm.fileName = <<"a">>) =>
            pm.result = <<"https://storage.bunnycdn.com/", "z", "/", "a">>
       /\ pm.directory \in {<<>>, SLASH} =>
            pm.result = baseURL \o storageZoneName \o SLASH \o StripOne(pm.fileName)

\* _getFilePath('/a/', '/z/') has returned 'a/z'
C24_Witness ==
  /\ Returned("_getFilePath")
  /\ pm.directory = <<"/", "a", "/">> /\ pm.fileName = <<"/", "z", "/">>
  /\ pm.result = <<"a", "/", "z">>


\* C25: the prefix-stripping function removes a leading '/<zone>/' from a
\* Path, so '/z/a/a' gives 'a/a', and gives '/' for the zone root '/z/'.
C25_StripZonePrefix ==
  (Returned("_getRemotePathFromFileWithoutStorageZone") /\ ~pm.raised) =>
    LET prefix == SLASH \o storageZoneName \o SLASH
        rest   == SubSeq(pm.directory, Len(prefix) + 1, Len(pm.directory))
    IN /\ pm.directory = <<"/", "z", "/", "a", "/", "a">> => pm.result = <<"a", "/", "a">>
       /\ StartsWith(pm.directory, prefix) =>
            pm.result = (IF rest = <<>> THEN SLASH ELSE rest)


\* the directory as _getFilePath takes it: nothing for '' and '/', else
\* without one leading and one trailing '/'
NormalizedDirectory(directory) ==
  IF directory \in {<<>>, SLASH} THEN <<>> ELSE StripOne(directory)

\* C26 as stated: _getFilePath joins with '/' only when directory and file
\* name are both non-empty after normalization and otherwise returns the one
\* that is non-empty, the normalized directory itself for an empty file name.
C26_JoinWhicheverNonEmpty ==
  Returned("_getFilePath") =>
    LET d == NormalizedDirectory(pm.directory)
        f == StripOne(pm.fileName)
    IN pm.result = (IF d # <<>> /\ f # <<>> THEN d \o SLASH \o f
                    ELSE IF d # <<>> THEN d ELSE f)

\* C26 as the code has it: for directory '' or '/' the result is the stripped
\* file name; for any other directory it is the stripped directory, a '/',
\* and the stripped file name, whether or not either of them is empty.
C26_JoinKeepsSeparator ==
  Returned("_getFilePath") =>
    pm.result = (IF pm.directory \in {<<>>, SLASH} THEN StripOne(pm.fileName)
                 ELSE StripOne(pm.directory) \o SLASH \o StripOne(pm.fileName))

\* _getFilePath('a') without a file name has returned 'a/'
C26_Witness ==
  /\ Returned("_getFilePath")
  /\ pm.directory = <<"a">> /\ pm.fileName = <<>>
  /\ pm.result = <<"a", "/">>


\* v is a string: a finite sequence of characters (the base url counts as one)
IsString(v) ==
  /\ DOMAIN v = 1..Len(v)
  /\ \A i \in 1..Len(v) : v[i] \in Chars \cup Range(baseURL)

SubListingInFlight(c) ==
  /\ calls[c].pc = "listing" /\ calls[c].recursive
  /\ Len(calls[c].stack) >= 2
  /\ calls[c].log[Len(calls[c].log)].res = "pending"

\* C28: while a recursive listFiles has a sub-listing's request in flight it
\* holds a gate token taken for that sub-listing, so fewer tokens are free
\* than the gate's capacity.
C28_SubListingHoldsSlot ==
  \A c \in Calls :
    (calls[c].kind = "list" /\ SubListingInFlight(c)) =>
      /\ calls[c].holds >= 1
      /\ free < concurrency


\* the caller's listFiles of the p-limit revision has settled
PLReturned == pl.st["root"] \in {"done", "failed"}

\* C29: in the p-limit revision a recursive listFiles whose requests are all
\* answered eventually returns, whatever the tree and the capacity.
C29_ListFilesReturns == <>PLReturned


\* C30: in the options-record revision every release of uploadFolder answers
\* an acquire of the same call, so no call has released more often than it
\* has acquired and the gate never has more free tokens than its capacity.
C30_ReleaseMatchesAcquire ==
  /\ free <= concurrency
  /\ \A c \in Calls : calls[c].kind = "optUpload" => calls[c].holds >= 0



\* the arguments fileFilter would be given for the directory entries: the
\* name of a local directory relative to its parent, the path of a remote one
OptDirectoryArgs(call) ==
  IF call.kind = "optDownload"
    THEN { ExpectedFilterArg(call, e) :
             e \in { x \in UNION { Range(RemoteTree[d]) : d \in DOMAIN RemoteTree } : x.IsDirectory } }
  ELSE { e.name : e \in { x \in UNION { Range(LocalTree[d]) : d \in DOMAIN LocalTree } : x.isDir } }

\* the arguments it would be given for the files the extension filter drops
OptExcludedFileArgs(call) ==
  { ExpectedFilterArg(call, e) :
      e \in { x \in Range(OptEnumerated(call)) : OptIsExcludedBy(call, x) } }

\* C31: in the options-record revision the extension filter comes before
\* fileFilter and both see files only: the predicate's calls are, in order,
\* the files whose extension is not excluded, and it is never called for a
\* directory entry or for a file whose extension is excluded.
C31_ExtensionFilterFirst ==
  \A c \in Calls :
    IsOptBulk(c) =>
      LET call == calls[c]
          IsCandidate(e) == ~OptIsExcludedBy(call, e)
          cands == SelectSeq(OptEnumerated(call), IsCandidate)
      IN /\ Len(call.asked) <= Len(cands)
         /\ \A i \in 1..Len(call.asked) :
              /\ call.asked[i] = ExpectedFilterArg(call, cands[i])
              /\ call.asked[i] \notin OptDirectoryArgs(call)
              /\ call.asked[i] \notin OptExcludedFileArgs(call)

\* a recursive bulk call with a fileFilter and an excluded extension has
\* resolved after walking a tree that holds a directory and a file with the
\* excluded extension, and its predicate was called
C31_Witness ==
  \E c \in Calls :
    /\ IsOptBulk(c) /\ calls[c].pc = "resolved" /\ calls[c].recursive
    /\ calls[c].fileFilter.given /\ calls[c].asked # <<>>
    /\ OptExcludedFileArgs(calls[c]) # {}
    /\ OptDirectoryArgs(calls[c]) # {}



IsRunning(x) == calls[x].pc \notin {"idle", "resolved", "rejected"}

\* C33: a bulk operation is admitted by the gate however many earlier bulk
\* operations on the instance have failed: whenever a call is suspended in
\* acquire, a token is held by a call that is still running and will release
\* it, so the acquire does not block forever.
C33_AdmittedAfterFailures ==
  \A c \in Calls :
    calls[c].pc = "acquiring" =>
      \E x \in Calls : x # c /\ IsRunning(x) /\ calls[x].holds > 0



RECURSIVE LocalWalk(_, _, _)
\* every file at every depth below dir, as its path relative to root
LocalWalk(root, dir, items) ==
  IF items = <<>> THEN <<>>
  ELSE LET item == Head(items)
           fullPath == PathJoin(dir, item.name)
           here == IF item.isDir THEN LocalWalk(root, fullPath, LocalTree[fullPath])
                   ELSE << PathRelative(root, fullPath) >>
       IN here \o LocalWalk(root, dir, Tail(items))

\* C34: a recursive uploadFolder that resolved has sent every file at every
\* depth below localDirectory whose extension is not excluded, files two or
\* more directories down included, each exactly once.
C34_RecursiveUploadEveryDepth ==
  \A c \in Calls :
    (calls[c].kind = "upload" /\ calls[c].recursive /\ calls[c].pc = "resolved") =>
      LET call == calls[c]
          puts == LogOf(c, "PUT")
          root == PathNormalize(call.localDirectory)
          IsWanted(n) == ~\E i \in 1..Len(call.excludedFileTypes) :
                            call.excludedFileTypes[i] = PathExtname(n)
          wanted == { n \in Range(LocalWalk(root, root, LocalTree[root])) : IsWanted(n) }
      IN \A n \in wanted : Cardinality({ i \in 1..Len(puts) : puts[i].item = n }) = 1



\* the promise of call c's downloadFile is pending and no event that is
\* still to come has a handler that settles it
AwaitsNoEvent(c) == calls[c].pc = "stalled"

\* C35: once its GET has responded a downloadFile always has an event to
\* come that resolves or rejects it, also after the response body failed or
\* was aborted mid-transfer, and so no downloadFolder holds a token while
\* waiting on a file that will never settle.
C35_DownloadFileAlwaysSettles ==
  \A c \in Calls :
    /\ calls[c].kind \in {"download", "downloadFile"} => ~AwaitsNoEvent(c)
    /\ (calls[c].kind = "download" /\ calls[c].holds > 0 /\ IsRunning(c)) =>
         calls[c].pc \in {"getting", "streaming"}



\* a bulk call of src/index.mjs that rejected after it had requested a transfer
IsFailedTransferCall(c) ==
  /\ IsBulk(c) /\ calls[c].pc = "rejected" /\ TransfersOf(c) # <<>>

\* the failing transfer is the last one requested: it is the head of what was
\* left to do, every transfer before it succeeded, none of the files after it
\* was requested, and no request of the call is unanswered
AbortedAtFirstFailure ==
  \A c \in Calls :
    IsFailedTransferCall(c) =>
      LET call == calls[c]
          ts   == TransfersOf(c)
      IN /\ call.todo # <<>> /\ ts[Len(ts)].item = Head(call.todo)
         /\ Len(ts) = Len(call.out) + 1
         /\ \A i \in 2..Len(call.todo) : \A j \in 1..Len(ts) : ts[j].item # call.todo[i]
         /\ PendingOf(c) = {} /\ c \notin InFlight

\* a call that has rejected does nothing more: until the caller makes its
\* next call, its record, the requests it made included, stays as it is
RejectedCallIsOver ==
  \A c \in Calls :
    calls[c].pc = "rejected" => (calls'[c] = calls[c] \/ calls'[c].pc = "idle")

\* C36: once one file's transfer fails inside uploadFolder or downloadFolder
\* of src/index.mjs, the operation starts no further transfer: the files after
\* the failing one in discovery order are never requested, and no transfer of
\* the operation is running when it rejects or starts afterwards.
C36_FailureStopsTransfers == []AbortedAtFirstFailure /\ [][RejectedCallIsOver]_vars

\* an uploadFolder rejected at its second file after the first had been
\* uploaded, with a third file left that was never requested
C36_Witness ==
  \E c \in Calls :
    /\ IsFailedTransferCall(c) /\ calls[c].kind = "upload"
    /\ Len(calls[c].out) = 1 /\ Len(calls[c].todo) = 2 /\ Len(TransfersOf(c)) = 2



\* the address of the object an entry stands for: the store keeps the object
\* named n of directory Path = '/' + zone + '/' + d at baseURL + zone + '/' + d + n
ListedUrl(e) ==
  baseURL \o storageZoneName \o SLASH \o SliceFrom(e.Path, Len(storageZoneName) + 2) \o e.ObjectName

\* every entry the store holds
RemoteEntries == UNION { Range(RemoteTree[d]) : d \in DOMAIN RemoteTree }

\* url is the address of entry e and of no other entry of the store
AddressesExactly(url, e) ==
  /\ url = ListedUrl(e)
  /\ \A x \in RemoteEntries : ListedUrl(x) = url => x = e

\* C37: for every entry e that listFiles returned, the url that
\* _getFullStorageUrl builds from the entry's Path without the zone prefix and
\* its ObjectName is baseURL + zone + '/' + d + n, the address of that entry
\* and of no other; the GET requests downloadFolder makes for the entries of
\* its listing are requests of these addresses.
C37_ListedEntryAddress ==
  \A c \in Calls :
    /\ (calls[c].kind = "list" /\ calls[c].pc = "resolved") =>
         \A e \in Range(calls[c].out) :
           AddressesExactly(_getFullStorageUrl(_getRemotePathFromFileWithoutStorageZone(e),
                                               e.ObjectName), e)
    /\ calls[c].kind = "download" =>
         \A g \in Range(LogOf(c, "GET")) : AddressesExactly(g.url, g.item)

\* a recursive listing of the zone root returned entries of the root and of a
\* directory two levels down, and a recursive download requested a file of
\* each of the three directories
C37_Witness ==
  \/ \E c \in Calls :
       /\ calls[c].kind = "list" /\ calls[c].pc = "resolved" /\ calls[c].recursive
       /\ \E e \in Range(calls[c].out) : e.Path = SLASH \o storageZoneName \o SLASH
       /\ \E e \in Range(calls[c].out) : e.Path = SLASH \o storageZoneName \o <<"/", "s", "/", "t", "/">>
  \/ \E c \in Calls :
       /\ calls[c].kind = "download" /\ calls[c].pc = "resolved" /\ Len(LogOf(c, "GET")) = 3

====
